---------------------------- MODULE Spec2Model ----------------------------
(***************************************************************************)
(* A model of the seeded maze generator (src/src/map.rs), the grid query *)
(* surface, the axis-separated collision resolver (src/src/player.rs), the *)
(* DDA ray caster (src/src/raycaster.rs) and the gameplay PRNG word of the *)
(* main loop (src/src/main.rs).                                            *)
(*                                                                         *)
(* Representation notes.                                                   *)
(*  - A u32 is a pair <<hi, lo>> of 16-bit halves (value hi * 2^16 + lo):  *)
(*    TLC's integers are 32-bit signed, so a u32 does not fit in one.      *)
(*    XOR, the shifts and wrapping_mul are computed on the halves and      *)
(*    truncate to 32 bits as the Rust operators do.                        *)
(*  - The grid is a function gr[y][x], 0-based, as Vec<Vec<u8>> indexed     *)
(*    gr[y][x] in the source.                                               *)
(***************************************************************************)
EXTENDS Integers, Sequences, FiniteSets, TLC

\* ------------------------------------------------------------------ bounds
\* Seeds 0..MaxSeed are generated (main.rs plays seeds 0, 1, 2), plus the
\* seed ZeroMixSeed defined below.
MaxSeed == 2

\* ------------------------------------------------------- program constants
WIDTH == 64
HEIGHT == 64
TILE_SIZE == 40

\* ------------------------------------------------------------ 32-bit words
Half == 65536

RECURSIVE BitXor(_, _)
BitXor(a, b) ==
    IF a = 0 THEN b
    ELSE IF b = 0 THEN a
    ELSE ((a + b) % 2) + 2 * BitXor(a \div 2, b \div 2)

\* XOR of two 4-bit values, tabulated once.
NibXor == [a \in 0..15 |-> [b \in 0..15 |-> BitXor(a, b)]]

Xor16(a, b) ==
      (NibXor[a \div 4096][b \div 4096] * 4096)
    + (NibXor[(a \div 256) % 16][(b \div 256) % 16] * 256)
    + (NibXor[(a \div 16) % 16][(b \div 16) % 16] * 16)
    + NibXor[a % 16][b % 16]

\* a ^ b on u32
Xor(a, b) == <<Xor16(a[1], b[1]), Xor16(a[2], b[2])>>

RECURSIVE Pow2(_)
Pow2(k) == IF k = 0 THEN 1 ELSE 2 * Pow2(k - 1)

\* w << k on u32, 0 < k < 16: the bits shifted past bit 31 are dropped
Shl(w, k) ==
    <<(((w[1] * Pow2(k)) % Half) + ((w[2] * Pow2(k)) \div Half)) % Half,
      (w[2] * Pow2(k)) % Half>>

\* w >> k on u32, 16 <= k < 32
Shr(w, k) == <<0, w[1] \div Pow2(k - 16)>>

\* (k as u32).wrapping_mul(c) for a small k (a cell coordinate)
wrapping_mul(k, c) ==
    <<((k * c[1]) + ((k * c[2]) \div Half)) % Half, (k * c[2]) % Half>>

\* (w as usize) % m for a small modulus m
WordMod(w, m) == (((w[1] % m) * (Half % m)) + w[2]) % m

ZeroWord == <<0, 0>>

\* x ^ (x << k) and x ^ (x >> k)
XorShl(x, k) == Xor(x, Shl(x, k))
XorShr(x, k) == Xor(x, Shr(x, k))

\* A mutant of the step: the right shift left out.
xorshift32_no_right_shift(x) == XorShl(XorShl(x, 13), 5)

\* The xorshift32 step: x ^= x << 13; x ^= x >> 17; x ^= x << 5
xorshift32(x) == XorShl(XorShr(XorShl(x, 13), 17), 5)

\* ------------------------------------------------------------ build_grid
\* 0x9E3779B1, 0x85EBCA77, 0x27D4EB2D
MixX == <<40503, 31153>>
MixY == <<34283, 51831>>
MixC == <<10196, 60205>>

\* The seed for which the mixed state of node (1,1) is zero:
\* 0x9E3779B1 ^ 0x85EBCA77 ^ 0x27D4EB2D = 0x3C0858EB.
ZeroMixSeed == Xor(Xor(MixX, MixY), MixC)

\* let seeds: [u32; 3] = [0, 1, 2], indexed from 0
seeds == [i \in 0..2 |-> <<0, i>>]

Seeds == {<<0, k>> : k \in 0..MaxSeed} \cup {ZeroMixSeed} \cup {seeds[i] : i \in 0..2}

\* Saltos de 2 celdas (E, O, S, N), indexed 0..3 as in the source
DIRS == [i \in 0..3 |->
            CASE i = 0 -> <<2, 0>>
              [] i = 1 -> <<-2, 0>>
              [] i = 2 -> <<0, 2>>
              [] i = 3 -> <<0, -2>>]

\* vec![vec![2; WIDTH]; HEIGHT] with the perimeter overwritten by 1
BaseGrid ==
    [y \in 0..(HEIGHT - 1) |->
        [x \in 0..(WIDTH - 1) |->
            IF y = 0 \/ y = HEIGHT - 1 \/ x = 0 \/ x = WIDTH - 1 THEN 1 ELSE 2]]

\* The grid and stack when the carving loop is entered.
CarveInit ==
    [g |-> [BaseGrid EXCEPT ![1][1] = 0], stack |-> <<<<1, 1>>>>]

\* seed ^ cx * 0x9E3779B1 ^ cy * 0x85EBCA77 ^ 0x27D4EB2D
NodeState(sd, cx, cy) ==
    Xor(Xor(Xor(sd, wrapping_mul(cx, MixX)), wrapping_mul(cy, MixY)), MixC)

Swap(order, i, j) == [order EXCEPT ![i] = order[j], ![j] = order[i]]

\* One round of the shuffle loop on [s, order]: one xorshift step, then
\* order[i] and order[s % (i + 1)] are swapped.
ShuffleSwap(order, i, s1) == [s |-> s1, order |-> Swap(order, i, WordMod(s1, i + 1))]
ShuffleRound(so, i) == ShuffleSwap(so.order, i, xorshift32(so.s))

\* for i in (1..4).rev(), from order = [0, 1, 2, 3] (a function on 0..3)
ShuffledOrder(s) ==
    ShuffleRound(ShuffleRound(ShuffleRound(
        [s |-> s, order |-> [i \in 0..3 |-> i]], 3), 2), 1).order

\* A mutant of the interior test: the upper bounds off by one.
Outside_upper_off_by_one(nx, ny) ==
    nx <= 0 \/ ny <= 0 \/ nx > WIDTH - 1 \/ ny > HEIGHT - 1

\* The test that skips a direction: the node is not strictly inside.
Outside(nx, ny) ==
    nx <= 0 \/ ny <= 0 \/ nx >= WIDTH - 1 \/ ny >= HEIGHT - 1

\* A mutant of Viable: the node is not tested for being unvisited.
Viable_unchecked(gr, cx, cy, d) == ~Outside(cx + d[1], cy + d[2])

\* Whether direction d advances from (cx, cy): the node two cells away is
\* strictly inside and not yet free.
Viable(gr, cx, cy, d) ==
    /\ ~Outside(cx + d[1], cy + d[2])
    /\ gr[cy + d[2]][cx + d[1]] # 0

\* A mutant of Advance: the wall between is left standing.
Advance_node_only(st, cx, cy, d) ==
    [g |-> [st.g EXCEPT ![cy + d[2]][cx + d[1]] = 0],
     stack |-> Append(st.stack, <<cx + d[1], cy + d[2]>>)]

\* The branch that advances: the wall between and the node are opened, the
\* node is pushed.
Advance(st, cx, cy, d) ==
    [g |-> [st.g EXCEPT ![cy + (d[2] \div 2)][cx + (d[1] \div 2)] = 0,
                        ![cy + d[2]][cx + d[1]] = 0],
     stack |-> Append(st.stack, <<cx + d[1], cy + d[2]>>)]

Pop(st) == [g |-> st.g, stack |-> SubSeq(st.stack, 1, Len(st.stack) - 1)]

\* `for &oi in &order`: the first direction of the order that is viable
\* advances; if none is, the node is popped. k counts the directions tried.
RECURSIVE TryDirs(_, _, _, _, _)
TryDirs(st, cx, cy, order, k) ==
    IF k > 3 THEN Pop(st)
    ELSE IF Viable(st.g, cx, cy, DIRS[order[k]])
    THEN Advance(st, cx, cy, DIRS[order[k]])
    ELSE TryDirs(st, cx, cy, order, k + 1)

CarveAt(sd, st, cx, cy) ==
    TryDirs(st, cx, cy, ShuffledOrder(NodeState(sd, cx, cy)), 0)

\* One iteration of the carving loop on a non-empty stack.
CarveStep(sd, st) ==
    CarveAt(sd, st, st.stack[Len(st.stack)][1], st.stack[Len(st.stack)][2])

\* A mutant of the widening decision: the parity test is inverted.
ToOpenAt_odd_parity(sd, gr, x, y) ==
    LET left  == gr[y][x - 1] = 0
        right == gr[y][x + 1] = 0
        up    == gr[y - 1][x] = 0
        down  == gr[y + 1][x] = 0
    IN  IF gr[y][x] # 0 THEN {}
        ELSE IF (left \/ right) /\ ~(up \/ down)
        THEN IF y > 1 /\ gr[y - 1][x] = 2 /\ (y + sd[2]) % 2 = 1
             THEN {<<x, y - 1>>}
             ELSE IF y < HEIGHT - 2 /\ gr[y + 1][x] = 2
             THEN {<<x, y + 1>>}
             ELSE {}
        ELSE IF (up \/ down) /\ ~(left \/ right)
        THEN IF x > 1 /\ gr[y][x - 1] = 2 /\ (x + sd[2]) % 2 = 1
             THEN {<<x - 1, y>>}
             ELSE IF x < WIDTH - 2 /\ gr[y][x + 1] = 2
             THEN {<<x + 1, y>>}
             ELSE {}
        ELSE {}

\* The cell a free cell (x, y) pushes to to_open in the widening pass, as a
\* set: empty, or the one perpendicular InternalWall neighbour chosen by the
\* parity of coordinate + seed, with the other side as the fallback.
ToOpenAt(sd, gr, x, y) ==
    LET left  == gr[y][x - 1] = 0
        right == gr[y][x + 1] = 0
        up    == gr[y - 1][x] = 0
        down  == gr[y + 1][x] = 0
    IN  IF gr[y][x] # 0 THEN {}
        ELSE IF (left \/ right) /\ ~(up \/ down)
        THEN IF y > 1 /\ gr[y - 1][x] = 2 /\ (y + sd[2]) % 2 = 0
             THEN {<<x, y - 1>>}
             ELSE IF y < HEIGHT - 2 /\ gr[y + 1][x] = 2
             THEN {<<x, y + 1>>}
             ELSE {}
        ELSE IF (up \/ down) /\ ~(left \/ right)
        THEN IF x > 1 /\ gr[y][x - 1] = 2 /\ (x + sd[2]) % 2 = 0
             THEN {<<x - 1, y>>}
             ELSE IF x < WIDTH - 2 /\ gr[y][x + 1] = 2
             THEN {<<x + 1, y>>}
             ELSE {}
        ELSE {}

\* A mutant of the widening pass: the corridor cell that decided an opening
\* is closed as its neighbour is opened.
Widen_moving(sd, gr) ==
    LET to_open == UNION {ToOpenAt(sd, gr, x, y) :
                            x \in 1..(WIDTH - 2), y \in 1..(HEIGHT - 2)}
    IN  [y \in 0..(HEIGHT - 1) |->
            [x \in 0..(WIDTH - 1) |->
                IF <<x, y>> \in to_open THEN 0
                ELSE IF x \in 1..(WIDTH - 2) /\ y \in 1..(HEIGHT - 2)
                        /\ ToOpenAt(sd, gr, x, y) # {} THEN 2
                ELSE gr[y][x]]]

\* The widening pass: every decision is taken on the grid as carved, the
\* cells are opened afterwards.
Widen(sd, gr) ==
    LET to_open == UNION {ToOpenAt(sd, gr, x, y) :
                            x \in 1..(WIDTH - 2), y \in 1..(HEIGHT - 2)}
    IN  [y \in 0..(HEIGHT - 1) |->
            [x \in 0..(WIDTH - 1) |->
                IF <<x, y>> \in to_open THEN 0 ELSE gr[y][x]]]

\* 73856093, 19349663
HashX == <<1126, 62557>>
HashY == <<295, 16543>>

\* seed ^ x * 73856093 ^ y * 19349663, through one xorshift round
PillarHash(sd, x, y) ==
    xorshift32(Xor(Xor(sd, wrapping_mul(x, HashX)), wrapping_mul(y, HashY)))

\* Whether the pillar pass pushes (x, y) to add. The neighbour test reads g,
\* the grid as it is before any pillar of this pass is written.
IsPillarSite(sd, gr, x, y) ==
    /\ gr[y][x] = 0
    /\ Cardinality({c \in {<<x, y - 1>>, <<x, y + 1>>, <<x - 1, y>>, <<x + 1, y>>} :
                        gr[c[2]][c[1]] = 0}) >= 3
    /\ WordMod(PillarHash(sd, x, y), 12) = 0
    /\ gr[y - 1][x] # 3 /\ gr[y + 1][x] # 3 /\ gr[y][x - 1] # 3 /\ gr[y][x + 1] # 3

\* The pillar pass over 2..WIDTH-3 x 2..HEIGHT-3.
Pillars(sd, gr) ==
    [y \in 0..(HEIGHT - 1) |->
        [x \in 0..(WIDTH - 1) |->
            IF /\ x >= 2 /\ x < WIDTH - 2 /\ y >= 2 /\ y < HEIGHT - 2
               /\ IsPillarSite(sd, gr, x, y)
            THEN 3 ELSE gr[y][x]]]

\* ------------------------------------------------------------- the state
VARIABLES
    seed,    \* build_grid's argument
    g,       \* the grid under construction
    stack,   \* the DFS stack
    pc,      \* "carve", "pillars", "done": the pass build_grid is in; then "built"
    grids,   \* the grid of each Map built so far, by its seed
    map,     \* the active Map
    player,  \* the Player
    query,   \* the last coordinate query on the map and what it returned
    word,    \* a PRNG word: its value, the value before the last step, the steps
    outcome, \* the deltas of the last try_move and, per axis, the branch it took
    moves,   \* number of try_move calls so far
    hits,    \* the last cast_all_rays call: its pose and the Vec<RayHit>
    game     \* the locals of main's loop other than map and player

genvars == <<seed, g, stack, pc>>
worldvars == <<grids, map, player>>
queryvars == <<query, word>>
movevars == <<outcome, moves>>
rayvars == <<hits>>
gamevars == <<game>>

vars == <<genvars, worldvars, queryvars, movevars, rayvars, gamevars>>

\* -------------------------------------------------------------- the Map
\* Option<T>: None is the empty tuple, Some(v) the 1-tuple.
None == <<>>
Some(v) == <<v>>

\* A Map is its tile_size and seed; its grid is build_grid(seed), never
\* written after construction, and is kept in grids under the seed.
new_with_seed(s) == [tile_size |-> TILE_SIZE, seed |-> s]

Grid(m) == grids[m.seed]

in_bounds(cx, cy) == cx >= 0 /\ cy >= 0 /\ cx < WIDTH /\ cy < HEIGHT

cell_id(m, cx, cy) ==
    IF ~in_bounds(cx, cy) THEN None ELSE Some(Grid(m)[cy][cx])

\* A mutant of is_wall: a Pillar is not a wall.
is_wall_below_pillar(m, cx, cy) ==
    IF cell_id(m, cx, cy) = None THEN FALSE
    ELSE cell_id(m, cx, cy)[1] > 0 /\ cell_id(m, cx, cy)[1] < 3

\* self.cell_id(cx, cy).map(|id| id > 0).unwrap_or(false)
is_wall(m, cx, cy) ==
    IF cell_id(m, cx, cy) = None THEN FALSE ELSE cell_id(m, cx, cy)[1] > 0

\* A mutant of is_free: whatever is not a wall.
is_free_as_not_wall(m, cx, cy) == ~is_wall(m, cx, cy)

is_free(m, cx, cy) == cell_id(m, cx, cy) = Some(0)

\* World coordinates are f32 pixels; the model keeps them in units of
\* 1 / Sub pixel. Every coordinate of the model is a multiple of 1/4 pixel
\* below 2^22, which f32 holds exactly, as it does their sums, differences
\* and the floor of their quotient by the tile size.
Sub == 4

\* One tile in units
TileU(m) == m.tile_size * Sub

\* A mutant of world_to_cell: the quotient is cut toward zero.
Trunc(x, d) == IF x < 0 THEN 0 - ((0 - x) \div d) ELSE x \div d
world_to_cell_truncating(m, x, y) == <<Trunc(x, TileU(m)), Trunc(y, TileU(m))>>

\* ((x / ts).floor() as i32, (y / ts).floor() as i32); \div rounds down
world_to_cell(m, x, y) == <<x \div TileU(m), y \div TileU(m)>>

\* ((cx + 0.5) * ts, (cy + 0.5) * ts)
cell_center_world(m, cx, cy) ==
    IF ~in_bounds(cx, cy) THEN None
    ELSE Some(<<((2 * cx + 1) * TileU(m)) \div 2, ((2 * cy + 1) * TileU(m)) \div 2>>)

\* A mutant of recommended_spawn: the centre of the corner cell.
recommended_spawn_corner(m) == cell_center_world(m, 0, 0)[1]

recommended_spawn(m) == cell_center_world(m, 1, 1)[1]

\* ------------------------------------------------------------ the Player
RADIUS_PX == 12
\* EPSILON_PX = 0.75, in units
EpsilonU == 3

\* A mutant of the sample offset: the radius without the epsilon.
SampleR_radius_only == RADIUS_PX * Sub

\* RADIUS_PX + EPSILON_PX, in units
SampleR == RADIUS_PX * Sub + EpsilonU

\* std::f32::consts::FRAC_PI_3, in degrees
FOV == 60

\* Player::new: angle 0 (angles are in degrees), fov 60 degrees
NewPlayer(x, y) == [x |-> x, y |-> y, angle |-> 0, fov |-> FOV]

from_map_spawn(m) == NewPlayer(recommended_spawn(m)[1], recommended_spawn(m)[2])

\* izquierda, derecha, arriba, abajo
Samples(wx, wy) ==
    {<<wx - SampleR, wy>>, <<wx + SampleR, wy>>, <<wx, wy - SampleR>>, <<wx, wy + SampleR>>}

\* A mutant of the sample test: only is_wall is asked.
SampleHits_walls_only(m, c) == is_wall(m, c[1], c[2])

\* Whether the sample point s collides: its cell is outside or a wall.
SampleHits(m, c) == ~in_bounds(c[1], c[2]) \/ is_wall(m, c[1], c[2])

\* A mutant of collides_at: the radius without the left and right samples.
collides_at_vertical_only(wx, wy, m) ==
    \E s \in {<<wx, wy - SampleR>>, <<wx, wy + SampleR>>} :
        SampleHits(m, world_to_cell(m, s[1], s[2]))

collides_at(wx, wy, m) ==
    \E s \in Samples(wx, wy) : SampleHits(m, world_to_cell(m, s[1], s[2]))

\* A mutant of the X axis: the coordinate is assigned without the test.
MoveX_unchecked(p, dx, m) == [p EXCEPT !.x = p.x + dx]

\* Mover en X / Mover en Y
MoveX(p, dx, m) ==
    IF dx # 0 /\ ~collides_at(p.x + dx, p.y, m) THEN [p EXCEPT !.x = p.x + dx] ELSE p

MoveY(p, dy, m) ==
    IF dy # 0 /\ ~collides_at(p.x, p.y + dy, m) THEN [p EXCEPT !.y = p.y + dy] ELSE p

\* A mutant of try_move: Y first, then X.
try_move_y_first(p, dx, dy, m) == MoveX(MoveY(p, dy, m), dx, m)

\* X first, then Y against the possibly updated x
try_move(p, dx, dy, m) == MoveY(MoveX(p, dx, m), dy, m)

\* ------------------------------------------------- the generator as steps
\* build_grid(sd) is entered.
GenInit(sds) ==
    /\ seed \in sds
    /\ g = CarveInit.g
    /\ stack = CarveInit.stack
    /\ pc = "carve"

\* No Map is built yet, nothing has been asked of one.
WorldInit ==
    /\ grids = <<>>
    /\ map = None
    /\ player = None
    /\ query = None
    /\ word = None
    /\ outcome = None
    /\ moves = 0
    /\ hits = None
    /\ game = None

\* One iteration of `while let Some(&(cx, cy)) = stack.last()`.
Carve ==
    /\ pc = "carve"
    /\ stack # <<>>
    /\ \E st \in {CarveStep(seed, [g |-> g, stack |-> stack])} :
            /\ g' = st.g
            /\ stack' = st.stack
    /\ UNCHANGED <<seed, pc, worldvars, queryvars, movevars, rayvars, gamevars>>

\* The loop has ended: the widening pass.
Widening ==
    /\ pc = "carve"
    /\ stack = <<>>
    /\ g' = Widen(seed, g)
    /\ pc' = "pillars"
    /\ UNCHANGED <<seed, stack, worldvars, queryvars, movevars, rayvars, gamevars>>

\* The pillar pass; build_grid returns g.
PillarPass ==
    /\ pc = "pillars"
    /\ g' = Pillars(seed, g)
    /\ pc' = "done"
    /\ UNCHANGED <<seed, stack, worldvars, queryvars, movevars, rayvars, gamevars>>

Init == GenInit(Seeds) /\ WorldInit

Next == Carve \/ Widening \/ PillarPass

Spec == Init /\ [][Next]_vars

\* The condition of the carving loop, `while let Some(..) = stack.last()`.
\* Every iteration changes the stack, so this is ENABLED <<Carve>>_vars.
LoopRuns == pc = "carve" /\ stack # <<>>

\* build_grid is one thread that is never suspended for ever: while the
\* loop condition holds, another iteration runs. This is weak fairness of
\* Carve, with its enabling condition written out.
LoopFair == []<>(~LoopRuns) \/ []<><<Carve>>_vars

SpecCarve == Init /\ [][Next]_vars /\ LoopFair

\* ------------------------------------------------ queries on a built map
\* let mut map = Map::new_with_seed(seeds[..]);
\* let mut player = Player::from_map_spawn(&map);
\* The grid build_grid returned becomes the Map's.
LoadMap ==
    /\ pc = "done"
    /\ grids' = (seed :> g) @@ grids
    /\ map' = new_with_seed(seed)
    /\ player' = from_map_spawn(new_with_seed(seed))
    /\ g' = <<>>
    /\ pc' = "built"
    /\ UNCHANGED <<seed, stack, queryvars, movevars, rayvars, gamevars>>

\* The maps of the program are built from seeds[0..2].
GameSeeds == {seeds[i] : i \in 0..2}

\* Cell coordinates queried: the grid and QMargin cells around it.
QMargin == 2

\* i32::MAX; i32::MIN is -I32_MAX - 1
I32_MAX == 2147483647

QueryCoords ==
    ((0 - QMargin)..(WIDTH - 1 + QMargin)) \cup {(0 - I32_MAX) - 1, I32_MAX}

\* One call each of cell_id, is_wall, is_free and cell_center_world on the
\* same cell; a behaviour asks about one cell.
QueryCell ==
    /\ pc = "built"
    /\ query = None
    /\ hits = None
    /\ \E cx \in QueryCoords, cy \in QueryCoords :
            query' = [cx |-> cx, cy |-> cy,
                      cell_id |-> cell_id(map, cx, cy),
                      is_wall |-> is_wall(map, cx, cy),
                      is_free |-> is_free(map, cx, cy),
                      cell_center_world |-> cell_center_world(map, cx, cy)]
    /\ UNCHANGED <<genvars, worldvars, word, movevars, rayvars, gamevars>>

InitMap == GenInit(GameSeeds) /\ WorldInit

\* A Map and its Player, for every seed of Seeds.
InitSpawn == GenInit(Seeds) /\ WorldInit

NextSpawn == Carve \/ Widening \/ PillarPass \/ LoadMap

SpecSpawn == InitSpawn /\ [][NextSpawn]_vars

NextQuery == Carve \/ Widening \/ PillarPass \/ LoadMap \/ QueryCell

SpecQuery == InitMap /\ [][NextQuery]_vars

\* ------------------------------------------------- moving on a built map
\* Deltas of a try_move call, per axis, in units: a whole tile, the gap
\* between the spawn point's samples and the edge of its cell, a single
\* unit, and none.
Gap == ((TILE_SIZE * Sub) \div 2) - SampleR

Deltas == {0 - (TILE_SIZE * Sub), 0 - Gap, -1, 0, 1, Gap, TILE_SIZE * Sub}

MaxMoves == 2

\* The branch try_move takes on an axis: the delta is zero ("none"), the
\* candidate collides ("rejected") or the coordinate is assigned ("applied").
Branch(d, collides) ==
    IF d = 0 THEN "none" ELSE IF collides THEN "rejected" ELSE "applied"

\* player.try_move(dx, dy, &map)
TryMove ==
    /\ pc = "built"
    /\ moves < MaxMoves
    /\ \E dx \in Deltas, dy \in Deltas :
            /\ player' = try_move(player, dx, dy, map)
            /\ outcome' = [dx |-> dx, dy |-> dy,
                           x |-> Branch(dx, collides_at(player.x + dx, player.y, map)),
                           y |-> Branch(dy, collides_at(player'.x, player.y + dy, map))]
    /\ moves' = moves + 1
    /\ UNCHANGED <<genvars, grids, map, queryvars, rayvars, gamevars>>

NextMove == Carve \/ Widening \/ PillarPass \/ LoadMap \/ TryMove

SpecMove == InitMap /\ [][NextMove]_vars

\* ------------------------------------------------------- collision probes
\* The cells around the two corners of the grid, one cell outside included
ProbeSpan == 4

ProbeCells == ((0 - 1)..ProbeSpan) \cup ((WIDTH - 1 - ProbeSpan)..WIDTH)

\* Offsets in a cell: a sample just short of the edge, on it, the centre
ProbeOffsets ==
    {SampleR - 1, SampleR, (TILE_SIZE * Sub) \div 2, (TILE_SIZE * Sub) - SampleR}

ProbeCoords == {(c * TILE_SIZE * Sub) + o : c \in ProbeCells, o \in ProbeOffsets}

\* One call of collides_at(wx, wy, &map): the candidate of a try_move,
\* which a long frame puts anywhere.
CollidesAt ==
    /\ pc = "built"
    /\ query = None
    /\ \E wx \in ProbeCoords, wy \in ProbeCoords :
            query' = [wx |-> wx, wy |-> wy, collides |-> collides_at(wx, wy, map)]
    /\ UNCHANGED <<genvars, worldvars, word, movevars, rayvars, gamevars>>

NextCollide == Carve \/ Widening \/ PillarPass \/ LoadMap \/ CollidesAt

SpecCollide == InitMap /\ [][NextCollide]_vars

\* ------------------------------------------------------- coordinate probes
\* One call of world_to_cell(x, y) on a point around a corner of the grid.
WorldToCell ==
    /\ pc = "built"
    /\ query = None
    /\ \E x \in ProbeCoords, y \in ProbeCoords :
            query' = [x |-> x, y |-> y, cell |-> world_to_cell(map, x, y)]
    /\ UNCHANGED <<genvars, worldvars, word, movevars, rayvars, gamevars>>

\* cell_center_world(cx, cy) and, of a centre, world_to_cell
CenterAndBack ==
    /\ pc = "built"
    /\ query = None
    /\ \E cx \in QueryCoords, cy \in QueryCoords :
            query' = [cx |-> cx, cy |-> cy,
                      center |-> cell_center_world(map, cx, cy),
                      back |-> IF cell_center_world(map, cx, cy) = None THEN None
                               ELSE Some(world_to_cell(map,
                                            cell_center_world(map, cx, cy)[1][1],
                                            cell_center_world(map, cx, cy)[1][2]))]
    /\ UNCHANGED <<genvars, worldvars, word, movevars, rayvars, gamevars>>

NextCells == Carve \/ Widening \/ PillarPass \/ LoadMap \/ WorldToCell \/ CenterAndBack

SpecCells == InitMap /\ [][NextCells]_vars

\* ------------------------------------------------------------ turning
\* Angles are in degrees: PI is 180.
PI == 180

RECURSIVE WhileAbove(_)
\* while a >= PI { a -= 2.0 * PI; }
WhileAbove(a) == IF a >= PI THEN WhileAbove(a - (2 * PI)) ELSE a

RECURSIVE WhileBelow(_)
\* while a < -PI { a += 2.0 * PI; }
WhileBelow(a) == IF a < 0 - PI THEN WhileBelow(a + (2 * PI)) ELSE a

\* A mutant of normalize_angle: each loop runs at most once.
normalize_angle_once(a) ==
    IF a >= PI THEN a - (2 * PI)
    ELSE IF a < 0 - PI THEN a + (2 * PI) ELSE a

normalize_angle(a) == WhileBelow(WhileAbove(a))

\* The largest turn of one frame, rot_speed * dt or dx * sensitivity.
MaxTurn == 725

\* The turns of one frame
TurnAmounts == {1, 7, 90, PI, (2 * PI) - 1, 2 * PI, 3 * PI, MaxTurn}

turn_left(p, amt) == [p EXCEPT !.angle = normalize_angle(p.angle - amt)]

turn_right(p, amt) == [p EXCEPT !.angle = normalize_angle(p.angle + amt)]

\* player.angle += dx * sensitivity, followed by the two loops of main
mouse_look(p, amt) == [p EXCEPT !.angle = WhileBelow(WhileAbove(p.angle + amt))]

TurnLeft ==
    /\ pc = "built"
    /\ \E amt \in TurnAmounts : player' = turn_left(player, amt)
    /\ UNCHANGED <<genvars, grids, map, queryvars, movevars, rayvars, gamevars>>

TurnRight ==
    /\ pc = "built"
    /\ \E amt \in TurnAmounts : player' = turn_right(player, amt)
    /\ UNCHANGED <<genvars, grids, map, queryvars, movevars, rayvars, gamevars>>

MouseLook ==
    /\ pc = "built"
    /\ \E amt \in TurnAmounts, sgn \in {-1, 1} : player' = mouse_look(player, sgn * amt)
    /\ UNCHANGED <<genvars, grids, map, queryvars, movevars, rayvars, gamevars>>

NextTurn == Carve \/ Widening \/ PillarPass \/ LoadMap \/ TurnLeft \/ TurnRight \/ MouseLook

SpecTurn == InitMap /\ [][NextTurn]_vars

\* ------------------------------------------------------------ the ray caster
\* Directions are cos and sin times Scale, rounded; the table holds the
\* cosines of 0, 5, ..., 90 degrees.
Scale == 10000

AngleStep == 5

CosTable ==
    <<10000, 9962, 9848, 9659, 9397, 9063, 8660, 8192, 7660, 7071,
      6428, 5736, 5000, 4226, 3420, 2588, 1736, 872, 0>>

\* ray_angle.cos() and ray_angle.sin()
Cos(a) ==
    IF a % 360 <= 90 THEN CosTable[((a % 360) \div AngleStep) + 1]
    ELSE IF a % 360 <= 180 THEN 0 - CosTable[((180 - (a % 360)) \div AngleStep) + 1]
    ELSE IF a % 360 <= 270 THEN 0 - CosTable[(((a % 360) - 180) \div AngleStep) + 1]
    ELSE CosTable[((360 - (a % 360)) \div AngleStep) + 1]

Sin(a) == Cos(a - 90)

Abs(v) == IF v < 0 THEN 0 - v ELSE v

\* t * player.fov, t = col / (screen_w - 1), or 0.5 for a single column
TFov(p, screen_w, col) ==
    IF screen_w > 1 THEN (col * p.fov) \div (screen_w - 1) ELSE p.fov \div 2

ray_angle(p, screen_w, col) == (p.angle - (p.fov \div 2)) + TFov(p, screen_w, col)

\* TILE_SIZE in units
RayTile == TILE_SIZE * Sub

\* ray_dir < 0.0. A component below 1e-6 in magnitude is 0 in the table;
\* the f32 it stands for has either sign, tn says which.
Negative(d, tn) == d < 0 \/ (d = 0 /\ tn)

\* step_x, step_y
StepOf(d, tn) == IF Negative(d, tn) THEN -1 ELSE 1

\* side_dist at the start, for a component d and a position pos on that
\* axis.  delta_dist is 1 / |d|, or INFINITY when |d| < 1e-6; the product
\* with a zero offset is then NaN.  A finite side_dist is n / (RayTile * |d|).
SideDist(d, tn, pos) ==
    IF d # 0 THEN
        [k |-> "fin",
         n |-> IF Negative(d, tn) THEN pos % RayTile ELSE RayTile - (pos % RayTile)]
    ELSE IF Negative(d, tn) /\ pos % RayTile = 0 THEN [k |-> "nan", n |-> 0]
    ELSE [k |-> "inf", n |-> 0]

\* side_dist += delta_dist
AddDelta(s) == IF s.k = "fin" THEN [s EXCEPT !.n = @ + RayTile] ELSE s

\* side_dist_x < side_dist_y.  Where the exact values are equal the rounded
\* f32 sums compare either way, tie says which.
SideLess(sx, sy, dx, dy, tie) ==
    IF sx.k = "nan" \/ sy.k = "nan" THEN FALSE
    ELSE IF sx.k = "inf" THEN FALSE
    ELSE IF sy.k = "inf" THEN TRUE
    ELSE IF sx.n * Abs(dy) = sy.n * Abs(dx) THEN tie
    ELSE sx.n * Abs(dy) < sy.n * Abs(dx)

\* A mutant of max_steps: the larger dimension without the factor.
max_steps_unscaled == (IF WIDTH > HEIGHT THEN WIDTH ELSE HEIGHT) \div 16

\* A mutant of max_steps: twice the ceiling.
max_steps_doubled == (IF WIDTH > HEIGHT THEN WIDTH ELSE HEIGHT) * 8

\* (MAP_W.max(MAP_H) * 4)
max_steps == (IF WIDTH > HEIGHT THEN WIDTH ELSE HEIGHT) * 4

\* The crossing of one iteration of the DDA loop.
Cross(s, dx, dy, tn, tie) ==
    IF SideLess(s.side_dist_x, s.side_dist_y, dx, dy, tie)
    THEN [s EXCEPT !.side_dist_x = AddDelta(@),
                   !.map_x = @ + StepOf(dx, tn),
                   !.hit_vertical = TRUE]
    ELSE [s EXCEPT !.side_dist_y = AddDelta(@),
                   !.map_y = @ + StepOf(dy, tn),
                   !.hit_vertical = FALSE]

\* A mutant of the checks: a Pillar does not stop the ray.
Probe_through_pillars(m, s) ==
    IF ~in_bounds(s.map_x, s.map_y) THEN [s EXCEPT !.left_grid = TRUE]
    ELSE IF cell_id(m, s.map_x, s.map_y)[1] > 0 /\ cell_id(m, s.map_x, s.map_y)[1] < 3
         THEN [s EXCEPT !.hit_id = cell_id(m, s.map_x, s.map_y)[1]]
    ELSE s

\* The checks of one iteration on the cell crossed into.
Probe(m, s) ==
    IF ~in_bounds(s.map_x, s.map_y) THEN [s EXCEPT !.left_grid = TRUE]
    ELSE IF cell_id(m, s.map_x, s.map_y)[1] > 0
         THEN [s EXCEPT !.hit_id = cell_id(m, s.map_x, s.map_y)[1]]
    ELSE s

\* for _ in 0..max_steps, n iterations left
RECURSIVE DDA(_, _, _, _, _, _, _)
DDA(m, s, dx, dy, tn, tie, n) ==
    IF n = 0 \/ s.left_grid \/ s.hit_id > 0 THEN s
    ELSE DDA(m, Probe(m, Cross(s, dx, dy, tn, tie)), dx, dy, tn, tie, n - 1)

\* RayHit::default()
NoHit == [dist_px |-> <<0, 1>>, wall_id |-> 0, hit_vertical |-> FALSE]

\* A mutant of the perpendicular distance: the far face of the cell.
Perp_far_face(cell, step, pos, d) ==
    <<Abs(((cell * RayTile) - pos) + (((1 + step) \div 2) * RayTile)),
      IF d = 0 THEN 1 ELSE Abs(d) * (1000000 \div Scale)>>

\* perp_cells.abs() * TILE_SIZE as the fraction <<n, d>>: n quarter-pixels
\* over d millionths, the denominator being 1e-6 for a component below it.
Perp(cell, step, pos, d) ==
    <<Abs(((cell * RayTile) - pos) + (((1 - step) \div 2) * RayTile)),
      IF d = 0 THEN 1 ELSE Abs(d) * (1000000 \div Scale)>>

\* What cast_ray_for_column returns after the loop ended in s.
HitOf(p, s, dx, dy, tn) ==
    IF s.left_grid \/ s.hit_id = 0 THEN NoHit
    ELSE [dist_px |-> IF s.hit_vertical
                      THEN Perp(s.map_x, StepOf(dx, tn), p.x, dx)
                      ELSE Perp(s.map_y, StepOf(dy, tn), p.y, dy),
          wall_id |-> s.hit_id,
          hit_vertical |-> s.hit_vertical]

\* The loop's variables before the first iteration.
RayStart(p, dx, dy, tn) ==
    [map_x |-> p.x \div RayTile, map_y |-> p.y \div RayTile,
     side_dist_x |-> SideDist(dx, tn, p.x), side_dist_y |-> SideDist(dy, tn, p.y),
     hit_vertical |-> FALSE, hit_id |-> 0, left_grid |-> FALSE]

RayOf(m, p, dx, dy, tn, tie) ==
    HitOf(p, DDA(m, RayStart(p, dx, dy, tn), dx, dy, tn, tie, max_steps), dx, dy, tn)

cast_ray_for_column(m, p, screen_w, col, tn, tie) ==
    RayOf(m, p, Cos(ray_angle(p, screen_w, col)), Sin(ray_angle(p, screen_w, col)), tn, tie)

\* hits[col] for col in 0..screen_w, as a sequence
cast_all_rays(m, p, screen_w, tn, tie) ==
    [i \in 1..screen_w |-> cast_ray_for_column(m, p, screen_w, i - 1, tn, tie)]

\* Poses cast from: the cells PoseStride apart from (1,1), at the cell's
\* corner and its centre, every HeadingStep degrees.
PoseStride == 12

PoseCells ==
    {c \in (1..(WIDTH - 2)) \X (1..(HEIGHT - 2)) :
        c[1] % PoseStride = 1 /\ c[2] % PoseStride = 1}

PoseOffsets == {0, RayTile \div 2}

HeadingStep == 15

Headings == {HeadingStep * k : k \in 0..((360 \div HeadingStep) - 1)}

\* Column counts 1..MaxCols
MaxCols == 3

\* cast_all_rays(&map, &player, screen_w) for a player inside a Free cell;
\* a behaviour casts once.
CastAllRays ==
    /\ pc = "built"
    /\ hits = None
    /\ \E c \in {fc \in PoseCells : is_free(map, fc[1], fc[2])},
          ox \in PoseOffsets, oy \in PoseOffsets, a \in Headings,
          screen_w \in 1..MaxCols, tn \in BOOLEAN, tie \in BOOLEAN :
            hits' = [x |-> (c[1] * RayTile) + ox, y |-> (c[2] * RayTile) + oy,
                     angle |-> a, screen_w |-> screen_w,
                     rays |-> cast_all_rays(map,
                                 [player EXCEPT !.x = (c[1] * RayTile) + ox,
                                                !.y = (c[2] * RayTile) + oy,
                                                !.angle = a],
                                 screen_w, tn, tie)]
    /\ UNCHANGED <<genvars, worldvars, queryvars, movevars, gamevars>>

NextRay == Carve \/ Widening \/ PillarPass \/ LoadMap \/ CastAllRays

SpecRay == InitMap /\ [][NextRay]_vars

\* Cells on the perimeter ring, PoseStride apart: a player placed there
\* is not inside a Free cell, and its outward rays leave the grid.
EdgePoseCells ==
    {c \in (0..(WIDTH - 1)) \X (0..(HEIGHT - 1)) :
        \/ (c[1] \in {0, WIDTH - 1} /\ c[2] % PoseStride = 1)
        \/ (c[2] \in {0, HEIGHT - 1} /\ c[1] % PoseStride = 1)}

\* The loop's variables at the end of each column's traversal.
Traversals(m, p, screen_w, tn, tie) ==
    [i \in 1..screen_w |->
        DDA(m, RayStart(p, Cos(ray_angle(p, screen_w, i - 1)),
                           Sin(ray_angle(p, screen_w, i - 1)), tn),
            Cos(ray_angle(p, screen_w, i - 1)), Sin(ray_angle(p, screen_w, i - 1)),
            tn, tie, max_steps)]

\* The pose of a cast: the player at offset (ox, oy) of cell c, heading a.
PoseAt(c, ox, oy, a) ==
    [player EXCEPT !.x = (c[1] * RayTile) + ox, !.y = (c[2] * RayTile) + oy,
                   !.angle = a]

\* cast_all_rays(&map, &player, screen_w) for a player on the perimeter
\* ring; `ends` keeps where each traversal ended.
CastFromEdge ==
    /\ pc = "built"
    /\ hits = None
    /\ query = None
    /\ \E c \in EdgePoseCells, ox \in PoseOffsets, oy \in PoseOffsets, a \in Headings,
          screen_w \in 1..MaxCols, tn \in BOOLEAN, tie \in BOOLEAN :
            hits' = [x |-> (c[1] * RayTile) + ox, y |-> (c[2] * RayTile) + oy,
                     angle |-> a, screen_w |-> screen_w,
                     rays |-> cast_all_rays(map, PoseAt(c, ox, oy, a), screen_w, tn, tie),
                     ends |-> Traversals(map, PoseAt(c, ox, oy, a), screen_w, tn, tie)]
    /\ UNCHANGED <<genvars, worldvars, queryvars, movevars, gamevars>>

NextBounds == Carve \/ Widening \/ PillarPass \/ LoadMap \/ QueryCell \/ CastFromEdge

SpecBounds == InitMap /\ [][NextBounds]_vars

\* ------------------------------------------------- the traversal as steps
\* The signs a component below 1e-6 may have: there is one only along an
\* axis.
TinySigns(a) == IF a % 90 = 0 THEN BOOLEAN ELSE {FALSE}

\* cast_ray_for_column for the single column of a 1-column cast, up to the
\* loop: the player is inside a Free cell or on the perimeter ring.
StartRay ==
    /\ pc = "built"
    /\ hits = None
    /\ \E c \in {fc \in PoseCells : is_free(map, fc[1], fc[2])} \cup EdgePoseCells,
          o \in PoseOffsets, a \in Headings, tie \in BOOLEAN :
        \E tn \in TinySigns(a) :
            hits' = [p |-> PoseAt(c, o, o, a),
                     dx |-> Cos(ray_angle(PoseAt(c, o, o, a), 1, 0)),
                     dy |-> Sin(ray_angle(PoseAt(c, o, o, a), 1, 0)),
                     tn |-> tn, tie |-> tie,
                     s |-> RayStart(PoseAt(c, o, o, a),
                                    Cos(ray_angle(PoseAt(c, o, o, a), 1, 0)),
                                    Sin(ray_angle(PoseAt(c, o, o, a), 1, 0)), tn),
                     n |-> max_steps,
                     result |-> None]
    /\ UNCHANGED <<genvars, worldvars, queryvars, movevars, gamevars>>

\* The loop goes on: steps are left, no cell was struck, the grid not left.
InLoop(h) == h.result = None /\ h.n > 0 /\ ~h.s.left_grid /\ h.s.hit_id = 0

\* One iteration of `for _ in 0..max_steps`
DDAStep ==
    /\ hits # None
    /\ InLoop(hits)
    /\ hits' = [hits EXCEPT !.s = Probe(map, Cross(@, hits.dx, hits.dy, hits.tn, hits.tie)),
                            !.n = @ - 1]
    /\ UNCHANGED <<genvars, worldvars, queryvars, movevars, gamevars>>

\* After the loop: the record returned
EndRay ==
    /\ hits # None
    /\ hits.result = None
    /\ ~InLoop(hits)
    /\ hits' = [hits EXCEPT !.result = Some(HitOf(hits.p, hits.s, hits.dx, hits.dy, hits.tn))]
    /\ UNCHANGED <<genvars, worldvars, queryvars, movevars, gamevars>>

NextWalk == Carve \/ Widening \/ PillarPass \/ LoadMap \/ StartRay \/ DDAStep \/ EndRay

SpecWalk == InitMap /\ [][NextWalk]_vars

\* cast_ray_for_column is not suspended for ever: an iteration that can
\* run does, and so does the return after the loop.
SpecWalkFair == SpecWalk /\ WF_vars(DDAStep) /\ WF_vars(EndRay)

\* ------------------------------------------------------------ the objective
\* 73856093, 19349663, 0x9E3779B9
ObjMulX == <<1126, 62557>>
ObjMulY == <<295, 16543>>
ObjMix == <<40503, 31161>>

\* (h & 0xFF) of the hashed cell
Jitter(m, x, y) ==
    xorshift32(Xor(Xor(Xor(m.seed, wrapping_mul(x, ObjMulX)),
                       wrapping_mul(y, ObjMulY)), ObjMix))[2] % 256

\* d2 * 256 + jitter, d2 the squared cell distance to the spawn cell (1,1)
Score(m, x, y) == ((((x - 1) * (x - 1)) + ((y - 1) * (y - 1))) * 256) + Jitter(m, x, y)

\* The order of `for y in 1..HEIGHT-1 { for x in 1..WIDTH-1`
ScanBefore(a, b) == a[2] < b[2] \/ (a[2] = b[2] /\ a[1] < b[1])

Interior == (1..(WIDTH - 2)) \X (1..(HEIGHT - 2))

FreeInterior(m) == {c \in Interior : is_free(m, c[1], c[2])}

\* The greatest element of a non-empty set of integers
Greatest(S) == CHOOSE i \in S : \A j \in S : j <= i

\* The earliest cell in scan order among cells
Earliest(cells) == CHOOSE c \in cells : \A o \in cells : o = c \/ ScanBefore(c, o)

\* The cell the scan ends with, top being the greatest score: `score >
\* best_score` keeps the earliest cell that reaches it.
ScanBest(m, cells, top) == Earliest({c \in cells : Score(m, c[1], c[2]) = top})

\* (1,1) when no cell is free.
objective_cell(m) ==
    IF FreeInterior(m) = {} THEN <<1, 1>>
    ELSE ScanBest(m, FreeInterior(m),
                  Greatest({Score(m, c[1], c[2]) : c \in FreeInterior(m)}))

\* The centre of an in-bounds cell
CenterOf(m, cell) == cell_center_world(m, cell[1], cell[2])[1]

objective_world(m) == CenterOf(m, objective_cell(m))

\* ------------------------------------------------------------ the main loop
\* 0xA36E_2D4F, 0xB5297A4D, 0x1B873593, 0x68E31DA4, 0x9E3779B1
RngSeed_zero == <<0, 0>>
RngSeed == <<41838, 11599>>
RngStart == <<46377, 31309>>
RngCoin == <<7047, 13715>>
RngSwitch == <<26851, 7588>>
RngMix == <<40503, 31153>>

\* The least element of a non-empty set of integers
Least(S) == CHOOSE i \in S : \A j \in S : i <= j

\* The cells of the ring at distance r in the order find_nearest_free_cell
\* visits them: top and bottom by dx, then left and right by dy.
RingCells(cx, cy, r) ==
    [k \in 1..(2 * ((2 * r) + 1)) |->
        <<(cx - r) + ((k - 1) \div 2), IF k % 2 = 1 THEN cy - r ELSE cy + r>>]
    \o
    [k \in 1..(2 * ((2 * r) - 1)) |->
        <<IF k % 2 = 1 THEN cx - r ELSE cx + r, (cy - r) + 1 + ((k - 1) \div 2)>>]

\* Indices of the ring cells that are in bounds and not a wall.
RingFree(m, cells) ==
    {i \in 1..Len(cells) :
        in_bounds(cells[i][1], cells[i][2]) /\ ~is_wall(m, cells[i][1], cells[i][2])}

RECURSIVE NearestFrom(_, _, _, _, _)
NearestFrom(m, cx, cy, r, max_r) ==
    IF r > max_r THEN None
    ELSE IF RingFree(m, RingCells(cx, cy, r)) # {}
         THEN Some(RingCells(cx, cy, r)[Least(RingFree(m, RingCells(cx, cy, r)))])
    ELSE NearestFrom(m, cx, cy, r + 1, max_r)

\* find_nearest_free_cell with its rings starting at r = 2
find_nearest_free_cell_from_second_ring(m, cx, cy, max_r) ==
    IF cx >= 0 /\ cy >= 0 /\ ~is_wall(m, cx, cy) THEN Some(<<cx, cy>>)
    ELSE NearestFrom(m, cx, cy, 2, max_r)

find_nearest_free_cell(m, cx, cy, max_r) ==
    IF cx >= 0 /\ cy >= 0 /\ ~is_wall(m, cx, cy) THEN Some(<<cx, cy>>)
    ELSE NearestFrom(m, cx, cy, 1, max_r)

Clamp(v, lo, hi) == IF v < lo THEN lo ELSE IF v > hi THEN hi ELSE v

\* The four targets of compute_anchors, clamped
AnchorTargets ==
    <<<<Clamp(WIDTH \div 4, 1, WIDTH - 2), Clamp(HEIGHT \div 4, 1, HEIGHT - 2)>>,
      <<Clamp((3 * WIDTH) \div 4, 1, WIDTH - 2), Clamp(HEIGHT \div 4, 1, HEIGHT - 2)>>,
      <<Clamp(WIDTH \div 4, 1, WIDTH - 2), Clamp((3 * HEIGHT) \div 4, 1, HEIGHT - 2)>>,
      <<Clamp((3 * WIDTH) \div 4, 1, WIDTH - 2), Clamp((3 * HEIGHT) \div 4, 1, HEIGHT - 2)>>>>

\* A mutant of the anchors: the centre of the target cell itself
AnchorOf_target_cell(m, tg) == cell_center_world(m, tg[1], tg[2])

\* What one target pushes to `out`: the centre of the nearest free cell
\* within 8, if there is one and it has a centre.
AnchorOf(m, tg) ==
    IF find_nearest_free_cell(m, tg[1], tg[2], 8) = None THEN <<>>
    ELSE cell_center_world(m, find_nearest_free_cell(m, tg[1], tg[2], 8)[1][1],
                              find_nearest_free_cell(m, tg[1], tg[2], 8)[1][2])

compute_anchors(m) ==
    IF WIDTH < 4 \/ HEIGHT < 4 THEN <<>>
    ELSE IF AnchorOf(m, AnchorTargets[1]) \o AnchorOf(m, AnchorTargets[2])
            \o AnchorOf(m, AnchorTargets[3]) \o AnchorOf(m, AnchorTargets[4]) = <<>>
         THEN cell_center_world(m, 1, 1)
    ELSE AnchorOf(m, AnchorTargets[1]) \o AnchorOf(m, AnchorTargets[2])
            \o AnchorOf(m, AnchorTargets[3]) \o AnchorOf(m, AnchorTargets[4])

\* The locals of main's loop as one record.  safe is the safe relocation of
\* the frame's map switch: the player's position before and after it, None
\* in a frame without a switch.
Locals ==
    [state |-> game.state, game_mode |-> game.game_mode,
     menu_selected |-> game.menu_selected,
     anchors |-> game.anchors, anchor_idx |-> game.anchor_idx,
     active_seed_idx |-> game.active_seed_idx,
     obj |-> game.obj, objective_found |-> game.objective_found,
     rng_state |-> game.rng_state,
     rng_steps |-> game.rng_steps, fed_zero |-> game.fed_zero,
     frames |-> game.frames, safe |-> None,
     map |-> map, player |-> player]

\* The part of the locals the variable game holds.
GameOf(L) ==
    [state |-> L.state, game_mode |-> L.game_mode,
     menu_selected |-> L.menu_selected,
     anchors |-> L.anchors, anchor_idx |-> L.anchor_idx,
     active_seed_idx |-> L.active_seed_idx,
     obj |-> L.obj, objective_found |-> L.objective_found,
     rng_state |-> L.rng_state,
     rng_steps |-> L.rng_steps, fed_zero |-> L.fed_zero,
     frames |-> L.frames, safe |-> L.safe]

\* rng_state ^= rng_state << 13; rng_state ^= rng_state >> 17;
\* rng_state ^= rng_state << 5.  rng_steps counts the steps taken and
\* fed_zero records a step taken on the zero word.
Rand(L) ==
    [L EXCEPT !.rng_state = xorshift32(@),
              !.rng_steps = @ + 1,
              !.fed_zero = @ \/ (L.rng_state = ZeroWord)]

\* if rng_state == 0 { rng_state = c; }
Fix(L, c) == IF L.rng_state = ZeroWord THEN [L EXCEPT !.rng_state = c] ELSE L

\* GameMode::Normal at a start and at a map switch: the anchors of the
\* map and a drawn one of them.
PickAnchor(L) ==
    [L EXCEPT !.obj = L.anchors[WordMod(L.rng_state, Len(L.anchors)) + 1],
              !.anchor_idx = Some(WordMod(L.rng_state, Len(L.anchors)))]

PlaceNormal(L) ==
    IF compute_anchors(L.map) = <<>>
    THEN [L EXCEPT !.anchors = <<>>, !.anchor_idx = None]
    ELSE PickAnchor(Rand([L EXCEPT !.anchors = compute_anchors(L.map),
                                   !.anchor_idx = None]))

\* The first cell of the deterministic sweep that satisfies ok, if any.
SweepFirst(cells) ==
    IF cells = {} THEN None
    ELSE Some(CHOOSE c \in cells : \A o \in cells : o = c \/ ScanBefore(c, o))

PutObj(L, cell) ==
    [L EXCEPT !.obj = cell_center_world(L.map, cell[1], cell[2])[1]]

\* The cell two draws give: rx from the first word, ry from the second.
DrawX(L) == WordMod(L.rng_state, WIDTH - 2) + 1
DrawY(L) == WordMod(L.rng_state, HEIGHT - 2) + 1

\* GameMode::Dificil at a start and at a map switch: up to n draws of a
\* cell, each word replaced by c when zero; the first free cell other than
\* the player's is taken.  L1 is the state after the first draw.
RECURSIVE PlaceTries(_, _, _, _)
PlaceSecond(L1, c, pcell, n) ==
    \* L1 after rand X; the second draw is taken here
    IF is_free(L1.map, DrawX(L1), DrawY(Fix(Rand(L1), c)))
       /\ <<DrawX(L1), DrawY(Fix(Rand(L1), c))>> # pcell
    THEN [placed |-> TRUE,
          L |-> PutObj(Fix(Rand(L1), c), <<DrawX(L1), DrawY(Fix(Rand(L1), c))>>)]
    ELSE PlaceTries(Fix(Rand(L1), c), c, pcell, n - 1)

PlaceTries(L, c, pcell, n) ==
    IF n = 0 THEN [placed |-> FALSE, L |-> L]
    ELSE PlaceSecond(Fix(Rand(L), c), c, pcell, n)

PlaceSweep(L, pcell) ==
    IF SweepFirst(FreeInterior(L.map) \ {pcell}) = None THEN L
    ELSE PutObj(L, SweepFirst(FreeInterior(L.map) \ {pcell})[1])

PlaceAfter(r, pcell) == IF r.placed THEN r.L ELSE PlaceSweep(r.L, pcell)

PlaceDificil(L, c) ==
    PlaceAfter(PlaceTries(L, c, world_to_cell(L.map, L.player.x, L.player.y), 1024),
               world_to_cell(L.map, L.player.x, L.player.y))

PlaceObjective(L, c) ==
    IF L.game_mode = "Normal" THEN PlaceNormal(L) ELSE PlaceDificil(L, c)

\* The block under Enter and under a click on a button.
StartGame(L) ==
    [PlaceObjective(
        Fix([L EXCEPT !.game_mode = IF L.menu_selected = 0 THEN "Normal" ELSE "Dificil",
                      !.active_seed_idx = 0,
                      !.map = new_with_seed(seeds[0]),
                      !.player = from_map_spawn(new_with_seed(seeds[0])),
                      !.rng_state = Xor(RngSeed, seeds[0])],
            RngStart),
        RngStart)
     EXCEPT !.objective_found = FALSE, !.state = "Playing"]

\* GameState::Menu: Left, Right, Enter, then a click on button `click`.
MenuKeys(L, left, right) ==
    [L EXCEPT !.menu_selected =
        IF right /\ (IF left /\ @ > 0 THEN @ - 1 ELSE @) < 1
        THEN (IF left /\ @ > 0 THEN @ - 1 ELSE @) + 1
        ELSE (IF left /\ @ > 0 THEN @ - 1 ELSE @)]

MenuEnter(L, enter) == IF enter THEN StartGame(L) ELSE L

MenuClick(L, click) ==
    IF click = None THEN L ELSE StartGame([L EXCEPT !.menu_selected = click[1]])

MenuFrame(L, left, right, enter, click) ==
    MenuClick(MenuEnter(MenuKeys(L, left, right), enter), click)

\* Relocation, GameMode::Normal: up to `tries` draws of an anchor other
\* than the current one.
RECURSIVE NextAnchor(_, _, _)
NextAnchor(L, cur, tries) ==
    IF tries = 0 THEN [L |-> L, next |-> cur]
    ELSE IF WordMod(Rand(L).rng_state, Len(L.anchors)) # cur
         THEN [L |-> Rand(L), next |-> WordMod(Rand(L).rng_state, Len(L.anchors))]
    ELSE NextAnchor(Rand(L), cur, tries - 1)

\* usize::MAX as the index of no anchor
NoAnchor == -1

MoveToAnchor(r) ==
    [r.L EXCEPT !.obj = r.L.anchors[(IF r.next = NoAnchor THEN 0 ELSE r.next) + 1],
                !.anchor_idx = Some(IF r.next = NoAnchor THEN 0 ELSE r.next)]

RelocateNormal(L) ==
    IF L.anchors = <<>> THEN L
    ELSE MoveToAnchor(NextAnchor(L, IF L.anchor_idx = None THEN NoAnchor
                                     ELSE L.anchor_idx[1], 8))

\* Relocation, GameMode::Dificil: up to n draws of a cell off the
\* objective's row and column; the first free one is taken.
RECURSIVE TeleportTries(_, _, _)
TeleportTries(L, ocell, n) ==
    IF n = 0 THEN [placed |-> FALSE, L |-> L]
    ELSE IF /\ DrawX(Rand(L)) # ocell[1]
            /\ DrawY(Rand(Rand(L))) # ocell[2]
            /\ is_free(L.map, DrawX(Rand(L)), DrawY(Rand(Rand(L))))
         THEN [placed |-> TRUE,
               L |-> PutObj(Rand(Rand(L)), <<DrawX(Rand(L)), DrawY(Rand(Rand(L)))>>)]
    ELSE TeleportTries(Rand(Rand(L)), ocell, n - 1)

TeleportSweep(L, ocell) ==
    IF SweepFirst({c \in FreeInterior(L.map) : c[1] # ocell[1] /\ c[2] # ocell[2]}) = None
    THEN L
    ELSE PutObj(L, SweepFirst({c \in FreeInterior(L.map) :
                                  c[1] # ocell[1] /\ c[2] # ocell[2]})[1])

TeleportAfter(r, ocell) == IF r.placed THEN r.L ELSE TeleportSweep(r.L, ocell)

RelocateDificil(L) ==
    TeleportAfter(TeleportTries(L, world_to_cell(L.map, L.obj[1], L.obj[2]), 1024),
                  world_to_cell(L.map, L.obj[1], L.obj[2]))

\* After the coin's step: coin = rng_state & 1, the zero word is replaced,
\* and the objective moves when the coin is 1.
AfterCoin(L) ==
    IF L.rng_state[2] % 2 = 1
    THEN (IF L.game_mode = "Normal" THEN RelocateNormal(Fix(L, RngCoin))
          ELSE RelocateDificil(Fix(L, RngCoin)))
    ELSE Fix(L, RngCoin)

\* `if !objective_found && last_obj_check.elapsed() >= OBJ_SWITCH_SECONDS`
Relocate(L, due) ==
    IF ~L.objective_found /\ due THEN AfterCoin(Rand(L)) ELSE L

\* Recolocacion segura: the player's cell on the new map m
SafePlayer(pl, m) ==
    IF ~is_wall(m, world_to_cell(m, pl.x, pl.y)[1], world_to_cell(m, pl.x, pl.y)[2])
    THEN pl
    ELSE IF find_nearest_free_cell(m, world_to_cell(m, pl.x, pl.y)[1],
                                   world_to_cell(m, pl.x, pl.y)[2], 6) = None
         THEN [pl EXCEPT !.x = recommended_spawn(m)[1], !.y = recommended_spawn(m)[2]]
    ELSE IF cell_center_world(m,
                find_nearest_free_cell(m, world_to_cell(m, pl.x, pl.y)[1],
                                       world_to_cell(m, pl.x, pl.y)[2], 6)[1][1],
                find_nearest_free_cell(m, world_to_cell(m, pl.x, pl.y)[1],
                                       world_to_cell(m, pl.x, pl.y)[2], 6)[1][2]) = None
         THEN pl
    ELSE [pl EXCEPT
            !.x = cell_center_world(m,
                    find_nearest_free_cell(m, world_to_cell(m, pl.x, pl.y)[1],
                                           world_to_cell(m, pl.x, pl.y)[2], 6)[1][1],
                    find_nearest_free_cell(m, world_to_cell(m, pl.x, pl.y)[1],
                                           world_to_cell(m, pl.x, pl.y)[2], 6)[1][2])[1][1],
            !.y = cell_center_world(m,
                    find_nearest_free_cell(m, world_to_cell(m, pl.x, pl.y)[1],
                                           world_to_cell(m, pl.x, pl.y)[2], 6)[1][1],
                    find_nearest_free_cell(m, world_to_cell(m, pl.x, pl.y)[1],
                                           world_to_cell(m, pl.x, pl.y)[2], 6)[1][2])[1][2]]

\* rng_state ^= seeds[active_seed_idx] ^ 0x9E3779B1; zero is replaced
Remix(L) ==
    Fix([L EXCEPT !.rng_state = Xor(@, Xor(seeds[L.active_seed_idx], RngMix)),
                  !.objective_found = FALSE],
        RngSwitch)

\* The switch to the map of index idx.
SwitchTo(L, idx) ==
    Remix(PlaceObjective(
            [L EXCEPT !.active_seed_idx = idx,
                      !.safe = Some([from |-> <<L.player.x, L.player.y>>,
                                     to |-> <<SafePlayer(L.player, new_with_seed(seeds[idx])).x,
                                              SafePlayer(L.player, new_with_seed(seeds[idx])).y>>]),
                      !.player = SafePlayer(@, new_with_seed(seeds[idx])),
                      !.map = new_with_seed(seeds[idx])],
            RngSwitch))

\* `if last_switch.elapsed() >= SWITCH_SECONDS`
SwitchMap(L, due) ==
    IF due THEN SwitchTo(L, (L.active_seed_idx + 1) % 3) ELSE L

\* The movement keys of a frame, as the displacement d they ask try_move for.
Input(L, d) == [L EXCEPT !.player = try_move(@, d[1], d[2], L.map)]

\* map.tile_size() * 0.7, in units
PickR(m) == (TileU(m) * 7) \div 10

\* Pickup without the distance test
Pickup_at_any_distance(L) ==
    IF ~L.objective_found
    THEN [L EXCEPT !.objective_found = TRUE, !.state = "Victory"]
    ELSE L

\* Deteccion de recogida del objetivo
Pickup(L) ==
    IF /\ ~L.objective_found
       /\ ((L.player.x - L.obj[1]) * (L.player.x - L.obj[1]))
          + ((L.player.y - L.obj[2]) * (L.player.y - L.obj[2]))
            <= PickR(L.map) * PickR(L.map)
    THEN [L EXCEPT !.objective_found = TRUE, !.state = "Victory"]
    ELSE L

\* GameState::Playing
PlayingFrame(L, reloc, switch, d) ==
    Pickup(Input(SwitchMap(Relocate(L, reloc), switch), d))

\* A mutant of the Victory arm: the return to the menu rebuilds the first map.
VictoryFrame_resetting(L, back) ==
    IF back
    THEN [L EXCEPT !.state = "Menu", !.active_seed_idx = 0,
                   !.map = new_with_seed(seeds[0])]
    ELSE L

\* GameState::Victory: Enter or the mouse button returns to the menu.
VictoryFrame(L, back) == IF back THEN [L EXCEPT !.state = "Menu"] ELSE L

\* Frames of a behaviour
MaxFrames == 4

\* Iterations of the carving loop taken in one step of the main program
CarveBurst == 64

\* Up to n iterations of `while let Some(&(cx, cy)) = stack.last()`.
RECURSIVE CarveMany(_, _, _)
CarveMany(sd, st, n) ==
    IF n = 0 \/ st.stack = <<>> THEN st
    ELSE IF n = 1 THEN CarveStep(sd, st)
    ELSE CarveMany(sd, CarveMany(sd, st, n \div 2), n - (n \div 2))

\* The carving loop inside a Map::new_with_seed of main.
CarveOn ==
    /\ pc = "carve"
    /\ stack # <<>>
    /\ \E st \in {CarveMany(seed, [g |-> g, stack |-> stack], CarveBurst)} :
            /\ g' = st.g
            /\ stack' = st.stack
    /\ UNCHANGED <<seed, pc, worldvars, queryvars, movevars, rayvars, gamevars>>

\* One more grid is kept; build_grid is entered for the next seed of the
\* program, or all of them are built.
KeepGrid ==
    /\ pc = "done"
    /\ grids' = (seed :> g) @@ grids
    /\ IF GameSeeds \ (DOMAIN grids \cup {seed}) = {}
       THEN /\ pc' = "ready"
            /\ g' = <<>>
            /\ UNCHANGED <<seed, stack>>
       ELSE /\ seed' = seeds[Least({i \in 0..2 : seeds[i] \notin DOMAIN grids \cup {seed}})]
            /\ g' = CarveInit.g
            /\ stack' = CarveInit.stack
            /\ pc' = "carve"
    /\ UNCHANGED <<map, player, queryvars, movevars, rayvars, gamevars>>

\* main, up to the loop
Main ==
    /\ pc = "ready"
    /\ pc' = "running"
    /\ map' = new_with_seed(seeds[0])
    /\ player' = from_map_spawn(new_with_seed(seeds[0]))
    /\ game' = [state |-> "Menu", game_mode |-> "Dificil", menu_selected |-> 1,
                anchors |-> <<>>, anchor_idx |-> None,
                active_seed_idx |-> 0,
                obj |-> objective_world(new_with_seed(seeds[0])),
                objective_found |-> FALSE,
                rng_state |-> Xor(RngSeed, seeds[0]),
                rng_steps |-> 0, fed_zero |-> FALSE, frames |-> 0, safe |-> None]
    /\ UNCHANGED <<seed, g, stack, grids, queryvars, movevars, rayvars>>

\* The frame r of the loop becomes the state.
Becomes(r) ==
    /\ map' = r.map
    /\ player' = r.player
    /\ game' = [GameOf(r) EXCEPT !.frames = @ + 1]

Menu ==
    /\ pc = "running"
    /\ game.state = "Menu"
    /\ game.frames < MaxFrames
    /\ \E left \in BOOLEAN, right \in BOOLEAN, enter \in BOOLEAN,
          click \in {None, Some(0), Some(1)} :
            Becomes(MenuFrame(Locals, left, right, enter, click))
    /\ UNCHANGED <<genvars, grids, queryvars, movevars, rayvars>>

\* Displacements a frame's movement keys ask for: none, a tile along each
\* axis, and the one that ends on the objective.
GameDeltas ==
    {<<0, 0>>, <<TILE_SIZE * Sub, 0>>, <<0, TILE_SIZE * Sub>>,
     <<game.obj[1] - player.x, game.obj[2] - player.y>>}

Playing ==
    /\ pc = "running"
    /\ game.state = "Playing"
    /\ game.frames < MaxFrames
    /\ \E reloc \in BOOLEAN, switch \in BOOLEAN, d \in GameDeltas :
            Becomes(PlayingFrame(Locals, reloc, switch, d))
    /\ UNCHANGED <<genvars, grids, queryvars, movevars, rayvars>>

Victory ==
    /\ pc = "running"
    /\ game.state = "Victory"
    /\ game.frames < MaxFrames
    /\ \E back \in BOOLEAN : Becomes(VictoryFrame(Locals, back))
    /\ UNCHANGED <<genvars, grids, queryvars, movevars, rayvars>>

InitGame == GenInit({seeds[0]}) /\ WorldInit

NextGame ==
    CarveOn \/ Widening \/ PillarPass \/ KeepGrid \/ Main \/ Menu \/ Playing \/ Victory

SpecGame == InitGame /\ [][NextGame]_vars

\* ------------------------------------------------------------ rays along an axis
\* The headings along the axes: 0, FRAC_PI_2, -PI and -FRAC_PI_2.
AxisHeadings == {0, 90, 180, 270}

\* The sign of the component below 1e-6 of an axis heading, as f32 gives
\* it: sin(0) is 0.0, sin of the ray angle at -PI is positive, and
\* cos(FRAC_PI_2) and cos(-FRAC_PI_2) are -4.37e-8.
AxisTinyNegative(a) == a % 180 = 90

\* cast_all_rays(&map, &player, 1) for a player in a Free cell heading
\* along an axis: the single column is cast along the heading.
CastAhead ==
    /\ pc = "built"
    /\ hits = None
    /\ \E c \in FreeInterior(map), ox \in PoseOffsets, oy \in PoseOffsets,
          a \in AxisHeadings :
            hits' = [x |-> (c[1] * RayTile) + ox, y |-> (c[2] * RayTile) + oy,
                     angle |-> a, screen_w |-> 1,
                     rays |-> cast_all_rays(map, PoseAt(c, ox, oy, a), 1,
                                            AxisTinyNegative(a), FALSE)]
    /\ UNCHANGED <<genvars, worldvars, queryvars, movevars, gamevars>>

NextAhead == Carve \/ Widening \/ PillarPass \/ LoadMap \/ CastAhead

SpecAhead == InitMap /\ [][NextAhead]_vars

\* ------------------------------------------------------------ the PRNG step
\* The generator is not running.
Idle ==
    /\ seed = ZeroWord
    /\ g = <<>>
    /\ stack = <<>>
    /\ pc = "idle"

\* Words a step is applied to first: 1, 0, 0xFFFFFFFF, 0x80000000, and the
\* words the program starts its streams from.
PrngInputs ==
    {<<0, 1>>, ZeroWord, <<65535, 65535>>, <<32768, 0>>, RngSeed, RngStart,
     RngCoin, RngSwitch, MixC}

\* Steps taken from one input
MaxSteps == 16

\* s ^= s << 13; s ^= s >> 17; s ^= s << 5;
PrngStep ==
    /\ word.steps < MaxSteps
    /\ word' = [x |-> xorshift32(word.x), prev |-> Some(word.x),
                steps |-> word.steps + 1]
    /\ UNCHANGED <<genvars, worldvars, query, movevars, rayvars, gamevars>>

InitPrng ==
    /\ Idle
    /\ grids = <<>>
    /\ map = None
    /\ player = None
    /\ query = None
    /\ outcome = None
    /\ moves = 0
    /\ hits = None
    /\ game = None
    /\ word \in {[x |-> w, prev |-> None, steps |-> 0] : w \in PrngInputs}

NextPrng == PrngStep

SpecPrng == InitPrng /\ [][NextPrng]_vars

\* ------------------------------------------------------------ reachability
\* The flood fill of the connectivity check: cardinal moves between Free
\* cells, from (1,1).
Nbrs(c) ==
    {<<c[1] + 1, c[2]>>, <<c[1] - 1, c[2]>>, <<c[1], c[2] + 1>>, <<c[1], c[2] - 1>>}

FloodStep(gr, st) ==
    LET new == {n \in UNION {Nbrs(c) : c \in st.frontier} :
                    /\ n[1] >= 0 /\ n[1] < WIDTH /\ n[2] >= 0 /\ n[2] < HEIGHT
                    /\ gr[n[2]][n[1]] = 0
                    /\ n \notin st.seen}
    IN  [seen |-> st.seen \cup new, frontier |-> new]

RECURSIVE FloodRun(_, _, _)
FloodRun(gr, st, n) ==
    IF st.frontier = {} \/ n = 0 THEN st
    ELSE IF n = 1 THEN FloodStep(gr, st)
    ELSE FloodRun(gr, FloodRun(gr, st, n \div 2), n - (n \div 2))

ReachableFree(gr) ==
    IF gr[1][1] # 0 THEN {}
    ELSE FloodRun(gr, [seen |-> {<<1, 1>>}, frontier |-> {<<1, 1>>}],
                  WIDTH * HEIGHT).seen

CellsWith(gr, id) ==
    {c \in (0..(WIDTH - 1)) \X (0..(HEIGHT - 1)) : gr[c[2]][c[1]] = id}

Ring ==
    {c \in (0..(WIDTH - 1)) \X (0..(HEIGHT - 1)) :
        c[1] = 0 \/ c[1] = WIDTH - 1 \/ c[2] = 0 \/ c[2] = HEIGHT - 1}

\* ------------------------------------------------------- generator claims

\* C1: for every seed, every Free cell of the grid build_grid returns is
\* reachable from (1,1) along cardinally adjacent Free cells.
C1_FreeCellsReachable ==
    pc = "done" => CellsWith(g, 0) \subseteq ReachableFree(g)

\* C2: for every seed, no two Pillar cells of the returned grid are
\* cardinally adjacent.
C2_NoAdjacentPillars ==
    pc = "done" =>
        \A c \in CellsWith(g, 3) : \A n \in Nbrs(c) : g[n[2]][n[1]] # 3

\* C3: in every state of the generation (after the base fill, during
\* carving, after widening and after the pillar pass) every cell of the
\* outermost ring is PerimeterWall (1): no pass writes to a ring cell.
C3_RingIsPerimeterWall ==
    \A c \in Ring : g[c[2]][c[1]] = 1

\* C3's case: the finished grid of a seed, with Free cells carved right
\* against each of the four sides of the ring.
C3_Witness ==
    /\ pc = "done"
    /\ \E x \in 1..(WIDTH - 2) : g[1][x] = 0
    /\ \E x \in 1..(WIDTH - 2) : g[HEIGHT - 2][x] = 0
    /\ \E y \in 1..(HEIGHT - 2) : g[y][1] = 0
    /\ \E y \in 1..(HEIGHT - 2) : g[y][WIDTH - 2] = 0
    /\ C3_RingIsPerimeterWall

\* C9: the shuffle of a carving iteration never starts from PRNG state 0:
\* the state mixed from the seed and the node on top of the stack is
\* non-zero (after the re-check the claim describes).
C9_ShuffleStateNonZero ==
    (pc = "carve" /\ stack # <<>>) =>
        NodeState(seed, stack[Len(stack)][1], stack[Len(stack)][2]) # ZeroWord

\* ------------------------------------------------------------ map claims

\* C5: is_wall returns true for every coordinate outside the grid, and for
\* every in-bounds cell whose id is PerimeterWall (1), InternalWall (2) or
\* Pillar (3).
C5_IsWallOutsideAndWalls ==
    query # None =>
        /\ ~in_bounds(query.cx, query.cy) => query.is_wall
        /\ (in_bounds(query.cx, query.cy)
                /\ Grid(map)[query.cy][query.cx] \in {1, 2, 3}) => query.is_wall

\* --------------------------------------------------------- player claims
\* The four sample points around (wx, wy) lie in in-bounds Free cells.
SamplesFree(wx, wy) ==
    \A s \in Samples(wx, wy) :
        /\ in_bounds(world_to_cell(map, s[1], s[2])[1], world_to_cell(map, s[1], s[2])[2])
        /\ is_free(map, world_to_cell(map, s[1], s[2])[1], world_to_cell(map, s[1], s[2])[2])

\* C6: from the spawn position, after any sequence of try_move calls, the
\* four sample points at RADIUS_PX + EPSILON_PX around the player lie in
\* in-bounds Free cells; a call assigns a coordinate only when the samples
\* of the candidate are free, and a rejected axis keeps its coordinate.
C6_SamplesStayFree ==
    /\ [](pc = "built" => SamplesFree(player.x, player.y))
    /\ [][moves' = moves + 1 =>
            /\ outcome'.x = "rejected" => player'.x = player.x
            /\ outcome'.y = "rejected" => player'.y = player.y
            /\ outcome'.x = "applied" => SamplesFree(player'.x, player.y)
            /\ outcome'.y = "applied" => SamplesFree(player'.x, player'.y)]_vars

\* C6's case: a call was rejected on the X axis, next to a wall, while it
\* moved on the Y axis.
C6_Witness ==
    /\ outcome # None
    /\ outcome.x = "rejected"
    /\ outcome.y = "applied"
    /\ SamplesFree(player.x, player.y)

\* C7: on the seed-0 grid with tile size 40 and the spawn at (60, 60), x
\* stays at least RADIUS_PX + EPSILON_PX to the right of the boundary x = 40
\* of the perimeter wall in column 0, and is never negative.
C7_KeepsClearOfColumnZero ==
    (pc = "built" /\ map.seed = seeds[0] /\ map.tile_size = 40) =>
        /\ player.x - (RADIUS_PX * Sub + EpsilonU) >= 40 * Sub
        /\ player.x >= 0

\* C7's case: on the seed-0 grid, spawned at (60, 60), the player stands at
\* exactly RADIUS_PX + EPSILON_PX from x = 40 and the last call pushed it
\* left and was rejected.
C7_Witness ==
    /\ outcome # None
    /\ map.seed = seeds[0]
    /\ recommended_spawn(map) = <<60 * Sub, 60 * Sub>>
    /\ outcome.x = "rejected"
    /\ player.x - (RADIUS_PX * Sub + EpsilonU) = 40 * Sub


\* ------------------------------------------------------------ ray claims
\* C8: every record cast_all_rays returns for a player inside a Free cell
\* of a generated grid is a hit, with wall_id 1, 2 or 3: the traversal
\* meets a wall cell before it leaves the grid or runs out of steps.
C8_EveryRayHits ==
    hits # None =>
        /\ Len(hits.rays) = hits.screen_w
        /\ \A i \in 1..Len(hits.rays) : hits.rays[i].wall_id \in {1, 2, 3}

\* C8: witness, a cast of several columns whose rays cross both kinds of
\* cell border and all hit.
C8_Witness ==
    /\ hits # None
    /\ Len(hits.rays) > 1
    /\ \A i \in 1..Len(hits.rays) : hits.rays[i].wall_id \in {1, 2, 3}
    /\ \E i \in 1..Len(hits.rays) : hits.rays[i].hit_vertical
    /\ \E i \in 1..Len(hits.rays) : ~hits.rays[i].hit_vertical

\* ------------------------------------------------------------ main loop claims
\* C10: the gameplay PRNG word rng_state is non-zero in every state of the
\* main loop, and no xorshift step of a game start, an objective
\* relocation or a map switch is taken on the zero word.
C10_RngStateNonZero ==
    game # None => (game.rng_state # ZeroWord /\ ~game.fed_zero)

\* C10: witness, a game that was started, stepped its PRNG several times
\* and switched to another map, with a non-zero word.
C10_Witness ==
    /\ game # None
    /\ game.state = "Playing"
    /\ game.active_seed_idx # 0
    /\ game.rng_steps >= 3
    /\ game.rng_state # ZeroWord

\* ------------------------------------------------------------ PRNG claims
\* The bits of a u32, least significant first.
Bits(w) ==
    [i \in 0..31 |-> IF i < 16 THEN (w[2] \div Pow2(i)) % 2
                     ELSE (w[1] \div Pow2(i - 16)) % 2]

\* a ^ b, a << k truncated to 32 bits and a >> k, bit by bit
BitsXor(a, b) == [i \in 0..31 |-> (a[i] + b[i]) % 2]
BitsShl(a, k) == [i \in 0..31 |-> IF i >= k THEN a[i - k] ELSE 0]
BitsShr(a, k) == [i \in 0..31 |-> IF i + k <= 31 THEN a[i + k] ELSE 0]

\* x ^= x << 13; x ^= x >> 17; x ^= x << 5 on the bits
BitsA(a) == BitsXor(a, BitsShl(a, 13))
BitsB(a) == BitsXor(a, BitsShr(a, 17))
BitsC(a) == BitsXor(a, BitsShl(a, 5))
BitsStep(a) == BitsC(BitsB(BitsA(a)))

\* C11: a PRNG step is x ^= x<<13; x ^= x>>17; x ^= x<<5 on 32 bits with
\* the left shifts truncated, a function of the input word only, and it
\* takes 0x00000001 to 0x00042021.
C11_StepIsXorshift32 ==
    (word # None /\ word.prev # None) =>
        /\ word.x[1] \in 0..(Half - 1)
        /\ word.x[2] \in 0..(Half - 1)
        /\ Bits(word.x) = BitsStep(Bits(word.prev[1]))
        /\ word.prev[1] = <<0, 1>> => word.x = <<4, 8225>>

\* C11: witness, the step from 0x00000001 has been taken.
C11_Witness ==
    /\ word # None
    /\ word.prev = Some(<<0, 1>>)
    /\ word.x = <<4, 8225>>

\* ------------------------------------------------------------ bounds claims
\* C12: a query on a coordinate outside the grid returns a default: cell_id
\* and cell_center_world return None and is_free returns false; a ray
\* whose traversal steps to a cell outside the grid returns the no-hit
\* record.
C12_OutOfBoundsDefaults ==
    /\ (query # None /\ ~in_bounds(query.cx, query.cy)) =>
            /\ query.cell_id = None
            /\ query.cell_center_world = None
            /\ query.is_free = FALSE
    /\ hits # None =>
            \A i \in 1..Len(hits.rays) :
                hits.ends[i].left_grid => hits.rays[i] = NoHit

\* C12: witness, a cast with a ray that left the grid and one that hit.
C12_Witness ==
    /\ hits # None
    /\ \E i \in 1..Len(hits.rays) :
            /\ hits.ends[i].left_grid
            /\ ~in_bounds(hits.ends[i].map_x, hits.ends[i].map_y)
            /\ hits.rays[i] = NoHit
    /\ \E i \in 1..Len(hits.rays) : hits.rays[i].wall_id > 0

\* ------------------------------------------------------------ widening claims
AllCells == (0..(WIDTH - 1)) \X (0..(HEIGHT - 1))

\* The nodes of the carving lattice: odd coordinates inside the ring.
NodeCount == ((WIDTH - 2) \div 2) * ((HEIGHT - 2) \div 2)

\* C13: the widening pass is monotonic: every cell Free after carving is
\* Free after widening, and the only change widening makes to a cell is
\* from InternalWall (2) to Free (0).
C13_WideningMonotonic ==
    [][(pc = "carve" /\ pc' = "pillars") =>
            \A c \in AllCells :
                /\ g[c[2]][c[1]] = 0 => g'[c[2]][c[1]] = 0
                /\ g'[c[2]][c[1]] # g[c[2]][c[1]] =>
                        (g[c[2]][c[1]] = 2 /\ g'[c[2]][c[1]] = 0)]_vars

\* C13: witness, the widening pass has run and opened cells: there are
\* more Free cells than the carving of the lattice leaves.
C13_Witness ==
    /\ pc = "pillars"
    /\ Cardinality(CellsWith(g, 0)) > (2 * NodeCount) - 1

\* ------------------------------------------------------------ spawn claims
\* C14: for every seed, Player::from_map_spawn places the player at the
\* world centre of cell (1,1), which is (60.0, 60.0) for cell edge 40, and
\* cell (1,1) is Free in the generated grid.
C14_SpawnAtCentreOfFreeCell ==
    pc = "built" =>
        /\ player.x = 60 * Sub
        /\ player.y = 60 * Sub
        /\ cell_center_world(map, 1, 1) = Some(<<player.x, player.y>>)
        /\ world_to_cell(map, player.x, player.y) = <<1, 1>>
        /\ Grid(map)[1][1] = 0
        /\ is_free(map, 1, 1)

\* C14: witness, the player of a map of a seed other than the first.
C14_Witness ==
    /\ pc = "built"
    /\ map.seed = ZeroMixSeed
    /\ map.tile_size = 40
    /\ <<player.x, player.y>> = <<60 * Sub, 60 * Sub>>
    /\ is_free(map, 1, 1)

\* ------------------------------------------------------------ distance claims
\* The first wall cell from the cell (cx, cy) along the heading a.
WallAhead(m, cx, cy, a) ==
    IF a = 0 THEN <<Least({k \in (cx + 1)..(WIDTH - 1) : is_wall(m, k, cy)}), cy>>
    ELSE IF a = 180 THEN <<Greatest({k \in 0..(cx - 1) : is_wall(m, k, cy)}), cy>>
    ELSE IF a = 90 THEN <<cx, Least({k \in (cy + 1)..(HEIGHT - 1) : is_wall(m, cx, k)})>>
    ELSE <<cx, Greatest({k \in 0..(cy - 1) : is_wall(m, cx, k)})>>

\* The distance, in units, from the point (x, y) to the near face of the
\* cell w along the heading a.
FaceAhead(w, x, y, a) ==
    IF a = 0 THEN (w[1] * RayTile) - x
    ELSE IF a = 180 THEN x - ((w[1] + 1) * RayTile)
    ELSE IF a = 90 THEN (w[2] * RayTile) - y
    ELSE y - ((w[2] + 1) * RayTile)

\* The cell of the pose of the last cast
HitsCell == <<hits.x \div RayTile, hits.y \div RayTile>>

\* C15: the single column of a 1-column cast along an axis heading reports
\* the first wall cell down the corridor, and dist_px is the distance d to
\* its near face times TILE_SIZE (here in units, over the unit direction).
C15_AxisRayDistance ==
    (hits # None /\ hits.screen_w = 1 /\ hits.angle \in AxisHeadings) =>
        /\ hits.rays[1].wall_id =
                cell_id(map, WallAhead(map, HitsCell[1], HitsCell[2], hits.angle)[1],
                             WallAhead(map, HitsCell[1], HitsCell[2], hits.angle)[2])[1]
        /\ hits.rays[1].dist_px =
                <<FaceAhead(WallAhead(map, HitsCell[1], HitsCell[2], hits.angle),
                            hits.x, hits.y, hits.angle),
                  1000000>>
        /\ hits.rays[1].hit_vertical = (hits.angle \in {0, 180})

\* C15: witness, a ray down a corridor to a wall two and a half cells away.
C15_Witness ==
    /\ hits # None
    /\ hits.screen_w = 1
    /\ hits.angle = 180
    /\ hits.x % RayTile = RayTile \div 2
    /\ hits.rays[1].dist_px = <<(5 * RayTile) \div 2, 1000000>>

\* ------------------------------------------------------------ heading claims
\* C16: after any sequence of turn_left, turn_right and mouse-look updates
\* from angle 0 the heading lies in [-PI, PI).
C16_HeadingNormalized ==
    player # None => (0 - PI <= player.angle /\ player.angle < PI)

\* C16: witness, a heading of exactly -PI reached by turning.
C16_Witness == player # None /\ player.angle = 0 - PI

\* ------------------------------------------------------------ cell id claims
\* The ids of the grid: Free, PerimeterWall, InternalWall, Pillar
CellIds == {0, 1, 2, 3}

\* The world position of the centre of the cell c
CentreU(c) == <<(c[1] * RayTile) + (RayTile \div 2), (c[2] * RayTile) + (RayTile \div 2)>>

\* The first wall cell ahead of the pose of the last cast
HitsWall == WallAhead(map, HitsCell[1], HitsCell[2], hits.angle)

\* The cells the last ray passed before the cell w, the player's included
CellsBefore(w) ==
    IF w[1] > HitsCell[1] THEN {<<k, w[2]>> : k \in HitsCell[1]..(w[1] - 1)}
    ELSE IF w[1] < HitsCell[1] THEN {<<k, w[2]>> : k \in (w[1] + 1)..HitsCell[1]}
    ELSE IF w[2] > HitsCell[2] THEN {<<w[1], k>> : k \in HitsCell[2]..(w[2] - 1)}
    ELSE {<<w[1], k>> : k \in (w[2] + 1)..HitsCell[2]}

\* C17: every cell of a generated grid holds an id of CellIds, exactly one
\* of is_free and is_wall is true of it, a position at the centre of a cell
\* with id 1, 2 or 3 collides, and a ray passes Free cells only and stops
\* at the first cell with id 1, 2 or 3, reporting that id.
C17_IdsAndOpacity ==
    /\ (pc = "built" /\ hits = None) =>
          \A c \in AllCells :
              /\ cell_id(map, c[1], c[2])[1] \in CellIds
              /\ is_free(map, c[1], c[2]) # is_wall(map, c[1], c[2])
              /\ is_free(map, c[1], c[2]) = (cell_id(map, c[1], c[2])[1] = 0)
              /\ (cell_id(map, c[1], c[2])[1] \in {1, 2, 3}) =>
                     collides_at(CentreU(c)[1], CentreU(c)[2], map)
    /\ (hits # None /\ hits.screen_w = 1 /\ hits.angle \in AxisHeadings) =>
          /\ hits.rays[1].wall_id \in {1, 2, 3}
          /\ hits.rays[1].wall_id = cell_id(map, HitsWall[1], HitsWall[2])[1]
          /\ \A c \in CellsBefore(HitsWall) : cell_id(map, c[1], c[2])[1] = 0

\* C17: witness, a ray stopped by a Pillar after passing a Free cell.
C17_Witness ==
    /\ hits # None
    /\ hits.rays[1].wall_id = 3
    /\ Cardinality(CellsBefore(HitsWall)) > 1

\* ------------------------------------------------------------ carving claims
\* The top of the stack
Top(s) == s[Len(s)]

\* The iteration pushed one node: a node two cells from the top that was
\* not Free; it and the cell between become Free, nothing else changes.
PushedOne ==
    /\ Len(stack') = Len(stack) + 1
    /\ SubSeq(stack', 1, Len(stack)) = stack
    /\ <<Top(stack')[1] - Top(stack)[1], Top(stack')[2] - Top(stack)[2]>>
            \in {DIRS[i] : i \in 0..3}
    /\ g[Top(stack')[2]][Top(stack')[1]] # 0
    /\ \A c \in AllCells :
            g'[c[2]][c[1]] =
                IF c = Top(stack')
                   \/ c = <<(Top(stack)[1] + Top(stack')[1]) \div 2,
                            (Top(stack)[2] + Top(stack')[2]) \div 2>>
                THEN 0 ELSE g[c[2]][c[1]]

\* The iteration popped one node and left the grid alone.
PoppedOne ==
    /\ stack' = SubSeq(stack, 1, Len(stack) - 1)
    /\ g' = g

\* C18: each iteration of the carving loop either pushes exactly one node
\* that was not Free, carving it and the intermediate cell, or pops exactly
\* one node; cells never leave Free, so no node is pushed twice; and the
\* stack eventually becomes empty.
C18_CarvingTerminates ==
    /\ [][(pc = "carve" /\ stack # <<>>) => (PushedOne \/ PoppedOne)]_vars
    /\ <>(pc = "carve" /\ stack = <<>>)

\* C18: witness, the stack has emptied after every node was pushed.
C18_Witness ==
    /\ pc = "carve"
    /\ stack = <<>>
    /\ Cardinality(CellsWith(g, 0)) = (2 * NodeCount) - 1

\* ------------------------------------------------------------ spanning tree claims
\* The nodes of the lattice: odd coordinates in 1..=WIDTH-3, 1..=HEIGHT-3
Nodes ==
    {c \in (1..(WIDTH - 3)) \X (1..(HEIGHT - 3)) : c[1] % 2 = 1 /\ c[2] % 2 = 1}

\* The Free cells that are not nodes
FreeEdges(gr) == CellsWith(gr, 0) \ Nodes

\* An edge cell lies between two nodes of a row or of a column.
JoinsTwoNodes(c) ==
    \/ c[1] % 2 = 0 /\ c[2] % 2 = 1 /\ {<<c[1] - 1, c[2]>>, <<c[1] + 1, c[2]>>} \subseteq Nodes
    \/ c[1] % 2 = 1 /\ c[2] % 2 = 0 /\ {<<c[1], c[2] - 1>>, <<c[1], c[2] + 1>>} \subseteq Nodes

\* C19: when the carving loop ends, before widening and pillars, the Free
\* cells form a spanning tree of the node lattice: every node is Free,
\* every other Free cell is an edge between two nodes, there are as many
\* edges as nodes minus one, and every Free cell is reached from (1,1), so
\* any two nodes are joined by exactly one Free path.
C19_CarvedSpanningTree ==
    (pc = "carve" /\ stack = <<>>) =>
        /\ Nodes \subseteq CellsWith(g, 0)
        /\ \A c \in FreeEdges(g) : JoinsTwoNodes(c)
        /\ Cardinality(FreeEdges(g)) = Cardinality(Nodes) - 1
        /\ ReachableFree(g) = CellsWith(g, 0)

\* C19: witness, the loop has ended with all the nodes of the lattice Free.
C19_Witness ==
    /\ pc = "carve"
    /\ stack = <<>>
    /\ Cardinality(Nodes \cap CellsWith(g, 0)) = NodeCount
    /\ Cardinality(Nodes) > 1

\* ------------------------------------------------------------ axis order claims
\* C20: try_move resolves X then Y: x becomes x + dx iff dx is not zero
\* and (x + dx, y) does not collide; y becomes y + dy iff dy is not zero
\* and (x', y + dy), with the possibly updated x, does not collide; each
\* axis is decided on its own test, so a move blocked on one still slides
\* along the other.
C20_AxesInOrder ==
    [][(pc = "built" /\ moves' = moves + 1) =>
            /\ player'.x =
                    IF outcome'.dx # 0
                       /\ ~collides_at(player.x + outcome'.dx, player.y, map)
                    THEN player.x + outcome'.dx ELSE player.x
            /\ player'.y =
                    IF outcome'.dy # 0
                       /\ ~collides_at(player'.x, player.y + outcome'.dy, map)
                    THEN player.y + outcome'.dy ELSE player.y]_vars

\* C20: witness, a diagonal move of which X was applied and Y, free at the
\* old x, was rejected at the new one.
C20_Witness ==
    /\ outcome # None
    /\ outcome.x = "applied"
    /\ outcome.y = "rejected"
    /\ ~collides_at(player.x - outcome.dx, player.y + outcome.dy, map)

\* ------------------------------------------------------------ collision claims
\* The four cardinal points at RADIUS_PX + EPSILON_PX from the candidate
CardinalPoints ==
    {<<query.wx - ((RADIUS_PX * Sub) + EpsilonU), query.wy>>,
     <<query.wx + ((RADIUS_PX * Sub) + EpsilonU), query.wy>>,
     <<query.wx, query.wy - ((RADIUS_PX * Sub) + EpsilonU)>>,
     <<query.wx, query.wy + ((RADIUS_PX * Sub) + EpsilonU)>>}

\* The point s lies outside the grid
PointOutside(s) ==
    \/ s[1] < 0 \/ s[1] >= WIDTH * TILE_SIZE * Sub
    \/ s[2] < 0 \/ s[2] >= HEIGHT * TILE_SIZE * Sub

\* The point s lies in a cell of the grid with id 1, 2 or 3
PointInWall(s) ==
    /\ ~PointOutside(s)
    /\ grids[map.seed][s[2] \div (TILE_SIZE * Sub)][s[1] \div (TILE_SIZE * Sub)] \in {1, 2, 3}

\* C21: a candidate position collides iff at least one of its four
\* cardinal sample points maps to a cell out of grid bounds or wall-like;
\* a sample outside the grid always makes the candidate collide.
C21_CollidesIffSampleBlocked ==
    query # None =>
        /\ query.collides = (\E s \in CardinalPoints : PointOutside(s) \/ PointInWall(s))
        /\ (\E s \in CardinalPoints : PointOutside(s)) => query.collides

\* C21: witness, a candidate that collides with a sample outside the grid
\* and none in a wall.
C21_Witness ==
    /\ query # None
    /\ query.collides
    /\ \E s \in CardinalPoints : PointOutside(s)
    /\ \A s \in CardinalPoints : ~PointInWall(s)

\* ------------------------------------------------------------ traversal claims
\* The id the grid holds at the cell the traversal stands in
IdUnder(h) == grids[map.seed][h.s.map_y][h.s.map_x]

\* The cell the traversal stands in is one of the grid
Inside(h) ==
    /\ 0 <= h.s.map_x /\ h.s.map_x < WIDTH
    /\ 0 <= h.s.map_y /\ h.s.map_y < HEIGHT

\* C22: a cell entered from which the traversal goes on is in bounds and
\* Free; the traversal stops at the first cell with id 1, 2 or 3 and the
\* record returned holds that id; hit_vertical is true iff the last grid
\* line crossed was a cell-column boundary; and the no-hit record is
\* returned when an entered cell is out of bounds.
C22_StopsAtFirstWall ==
    /\ [](hits # None =>
            /\ (hits.n < max_steps /\ InLoop(hits)) => (Inside(hits) /\ IdUnder(hits) = 0)
            /\ hits.s.hit_id > 0 => (Inside(hits) /\ IdUnder(hits) = hits.s.hit_id)
            /\ hits.s.left_grid = (hits.n < max_steps /\ ~Inside(hits))
            /\ (hits.result # None /\ hits.n < max_steps) =>
                    IF ~Inside(hits) THEN hits.result[1] = NoHit
                    ELSE IF IdUnder(hits) \in {1, 2, 3}
                    THEN /\ hits.result[1].wall_id = IdUnder(hits)
                         /\ hits.result[1].hit_vertical = hits.s.hit_vertical
                    ELSE hits.result[1] = NoHit
            /\ hits.result # None =>
                    hits.result[1] = RayOf(map, hits.p, hits.dx, hits.dy, hits.tn, hits.tie))
    /\ [][(hits # None /\ hits' # None /\ hits'.n = hits.n - 1) =>
            /\ hits'.s.hit_vertical = (hits'.s.map_x # hits.s.map_x)
            /\ Abs(hits'.s.map_x - hits.s.map_x) + Abs(hits'.s.map_y - hits.s.map_y) = 1]_vars

\* C22: witness, a ray that entered Free cells across both kinds of border
\* and was stopped by a Pillar.
C22_Witness ==
    /\ hits # None
    /\ hits.result # None
    /\ hits.result[1].wall_id = 3
    /\ hits.n < max_steps - 3
    /\ hits.s.map_x # hits.p.x \div RayTile
    /\ hits.s.map_y # hits.p.y \div RayTile

\* ------------------------------------------------------------ step bound claims
\* The iterations the traversal has performed
StepsDone(h) == ((IF WIDTH > HEIGHT THEN WIDTH ELSE HEIGHT) * 4) - h.n

\* C23: the traversal performs at most 4 * max(WIDTH, HEIGHT) steps; when
\* it ends without having entered a wall cell the column's result is the
\* no-hit record (wall_id 0); and every traversal started ends.
C23_StepsBounded ==
    /\ [](hits # None =>
            /\ hits.n >= 0
            /\ StepsDone(hits) >= 0
            /\ StepsDone(hits) <= 4 * (IF WIDTH > HEIGHT THEN WIDTH ELSE HEIGHT)
            /\ (hits.result # None /\ hits.s.hit_id = 0) =>
                    (hits.result[1] = NoHit /\ hits.result[1].wall_id = 0))
    /\ [][(hits # None /\ hits' # None /\ hits'.s # hits.s) =>
            StepsDone(hits') = StepsDone(hits) + 1]_vars
    /\ ((hits # None) ~> (hits # None /\ hits.result # None))

\* C23: witness, a traversal that ended after several steps without
\* entering a wall cell, with the no-hit record.
C23_Witness ==
    /\ hits # None
    /\ hits.result # None
    /\ hits.s.hit_id = 0
    /\ StepsDone(hits) > 0
    /\ hits.result[1].wall_id = 0

\* ------------------------------------------------------------ coordinate claims
\* c is the floor of v divided by the cell edge
IsFloorCell(c, v) == c * (TILE_SIZE * Sub) <= v /\ v < (c + 1) * (TILE_SIZE * Sub)

\* C24: world_to_cell gives the floor of each coordinate divided by the
\* cell edge, negative coordinates giving negative cells; for every
\* in-bounds cell c, world_to_cell(cell_center_world(c)) = c; and
\* cell_center_world is None exactly for the out-of-bounds cells.
C24_CellOfPointAndBack ==
    /\ (query # None /\ "cell" \in DOMAIN query) =>
            /\ IsFloorCell(query.cell[1], query.x)
            /\ IsFloorCell(query.cell[2], query.y)
            /\ query.x < 0 => query.cell[1] < 0
            /\ query.y < 0 => query.cell[2] < 0
    /\ (query # None /\ "center" \in DOMAIN query) =>
            /\ (query.center = None) =
                    ~(/\ 0 <= query.cx /\ query.cx < WIDTH
                      /\ 0 <= query.cy /\ query.cy < HEIGHT)
            /\ query.center # None =>
                    /\ query.back = Some(<<query.cx, query.cy>>)
                    /\ query.center[1] =
                            <<(query.cx * TILE_SIZE * Sub) + ((TILE_SIZE * Sub) \div 2),
                              (query.cy * TILE_SIZE * Sub) + ((TILE_SIZE * Sub) \div 2)>>

\* C24: witness, a point with a negative coordinate less than a cell from
\* the grid, mapped to cell -1.
C24_Witness ==
    /\ query # None
    /\ "cell" \in DOMAIN query
    /\ query.x < 0
    /\ query.x > 0 - (TILE_SIZE * Sub)
    /\ query.cell[1] = -1

\* ------------------------------------------------------------ widening side claims
\* The cell c is Free on the grid gr
FreeOn(gr, c) == gr[c[2]][c[1]] = 0

\* The cell c is an interior InternalWall of gr
InteriorWall(gr, c) ==
    /\ 1 <= c[1] /\ c[1] <= WIDTH - 2
    /\ 1 <= c[2] /\ c[2] <= HEIGHT - 2
    /\ gr[c[2]][c[1]] = 2

\* The free cardinal neighbours of c are only horizontal
OnlyHorizontal(gr, c) ==
    /\ FreeOn(gr, c)
    /\ FreeOn(gr, <<c[1] - 1, c[2]>>) \/ FreeOn(gr, <<c[1] + 1, c[2]>>)
    /\ ~FreeOn(gr, <<c[1], c[2] - 1>>) /\ ~FreeOn(gr, <<c[1], c[2] + 1>>)

\* The free cardinal neighbours of c are only vertical
OnlyVertical(gr, c) ==
    /\ FreeOn(gr, c)
    /\ FreeOn(gr, <<c[1], c[2] - 1>>) \/ FreeOn(gr, <<c[1], c[2] + 1>>)
    /\ ~FreeOn(gr, <<c[1] - 1, c[2]>>) /\ ~FreeOn(gr, <<c[1] + 1, c[2]>>)

\* The two perpendicular neighbours of c, the one the parity of
\* coordinate + seed prefers first
SidesOf(gr, c) ==
    IF OnlyHorizontal(gr, c)
    THEN IF (c[2] + seed[2]) % 2 = 0
         THEN <<<<c[1], c[2] - 1>>, <<c[1], c[2] + 1>>>>
         ELSE <<<<c[1], c[2] + 1>>, <<c[1], c[2] - 1>>>>
    ELSE IF (c[1] + seed[2]) % 2 = 0
         THEN <<<<c[1] - 1, c[2]>>, <<c[1] + 1, c[2]>>>>
         ELSE <<<<c[1] + 1, c[2]>>, <<c[1] - 1, c[2]>>>>

\* The neighbour the cell c opens: the preferred side when it is an
\* interior InternalWall, otherwise the other side
OpenedBy(gr, c) ==
    IF InteriorWall(gr, SidesOf(gr, c)[1]) THEN SidesOf(gr, c)[1] ELSE SidesOf(gr, c)[2]

\* The Free interior cells of gr that are pure segments
Segments(gr) ==
    {c \in (1..(WIDTH - 2)) \X (1..(HEIGHT - 2)) :
        OnlyHorizontal(gr, c) \/ OnlyVertical(gr, c)}

\* C25: in the widening pass every Free cell whose free neighbours are
\* only horizontal, or only vertical, opens exactly one perpendicular
\* neighbour, an interior InternalWall of the grid as carved: the side the
\* parity of coordinate + seed prefers, otherwise the other; and the cells
\* opened by the pass are those and no other.
C25_WideningSides ==
    [][(pc = "carve" /\ pc' = "pillars") =>
            /\ \A c \in Segments(g) :
                    /\ InteriorWall(g, OpenedBy(g, c))
                    /\ g'[OpenedBy(g, c)[2]][OpenedBy(g, c)[1]] = 0
            /\ \A c \in AllCells :
                    (g'[c[2]][c[1]] # g[c[2]][c[1]]) =>
                        \E d \in Nbrs(c) \cap Segments(g) : OpenedBy(g, d) = c]_vars

\* C25: witness, the widened grid of an odd seed on which an edge cell of
\* the row next to the ring, preferring the ring side, opened the other
\* side: a cell with both coordinates even, which carving never opens.
C25_Witness ==
    /\ pc = "pillars"
    /\ seed[2] % 2 = 1
    /\ \E x \in {k \in 1..(WIDTH - 2) : k % 2 = 0} :
            /\ g[1][x] = 0
            /\ g[2][x] = 0

\* ------------------------------------------------------------ the outer game state
\* The squared distance from the player to the objective is within the
\* square of the pick radius of the map m
WithinPickR(pl, o, m) ==
    ((pl.x - o[1]) * (pl.x - o[1])) + ((pl.y - o[2]) * (pl.y - o[2]))
        <= PickR(m) * PickR(m)

\* C26: the outer game state only moves along Menu -> Playing -> Victory ->
\* Menu: a frame that changes it goes from Menu to Playing, from Playing to
\* Victory with the player within 0.7 * tile size of the objective, or from
\* Victory to Menu; Victory is never entered from Menu.
C26_StateCycle ==
    [][(game # None /\ game'.state # game.state) =>
            \/ game.state = "Menu" /\ game'.state = "Playing"
            \/ /\ game.state = "Playing"
               /\ game'.state = "Victory"
               /\ WithinPickR(player', game'.obj, map')
            \/ game.state = "Victory" /\ game'.state = "Menu"]_vars

\* C26: witness, the menu again after a game was started, won and left
C26_Witness ==
    /\ game # None
    /\ game.state = "Menu"
    /\ game.objective_found
    /\ game.frames >= 3

\* ------------------------------------------------------------ the safe relocation
\* The ring distance between two cells, the r of find_nearest_free_cell
RingDist(a, b) ==
    IF Abs(a[1] - b[1]) > Abs(a[2] - b[2]) THEN Abs(a[1] - b[1]) ELSE Abs(a[2] - b[2])

\* The cells in bounds that are not walls of m within ring distance r of c
OpenWithin(m, c, r) ==
    {d \in ((c[1] - r)..(c[1] + r)) \X ((c[2] - r)..(c[2] + r)) :
        in_bounds(d[1], d[2]) /\ ~is_wall(m, d[1], d[2])}

\* The cell of m that holds the point p
CellOfPoint(m, p) == world_to_cell(m, p[1], p[2])

\* C27: after a timed map switch the cell of the new map that holds the
\* player's position is not a wall: a player whose cell became a wall is at
\* the centre of a free cell within ring distance 6 with no free cell on a
\* nearer ring, or at the spawn point when there is none within 6; another
\* player is where it was.
C27_SafeAfterSwitch ==
    (game # None /\ game.safe # None) =>
        /\ ~is_wall(map, CellOfPoint(map, game.safe[1].to)[1],
                         CellOfPoint(map, game.safe[1].to)[2])
        /\ IF ~is_wall(map, CellOfPoint(map, game.safe[1].from)[1],
                            CellOfPoint(map, game.safe[1].from)[2])
           THEN game.safe[1].to = game.safe[1].from
           ELSE IF OpenWithin(map, CellOfPoint(map, game.safe[1].from), 6) = {}
                THEN game.safe[1].to = recommended_spawn(map)
           ELSE \E d \in OpenWithin(map, CellOfPoint(map, game.safe[1].from), 6) :
                    /\ game.safe[1].to = CentreU(d)
                    /\ OpenWithin(map, CellOfPoint(map, game.safe[1].from),
                                  RingDist(d, CellOfPoint(map, game.safe[1].from)) - 1) = {}

\* C27: witness, a switch to a map on which the player's cell is a wall
C27_Witness ==
    /\ game # None
    /\ game.safe # None
    /\ is_wall(map, CellOfPoint(map, game.safe[1].from)[1],
                    CellOfPoint(map, game.safe[1].from)[2])

\* ------------------------------------------------------------ the player's cell
\* C28: on a generated grid, after any sequence of try_move calls from the
\* spawn position, the cell that holds the player's centre is a Free cell.
C28_CentreInFreeCell ==
    pc = "built" =>
        is_free(map, world_to_cell(map, player.x, player.y)[1],
                     world_to_cell(map, player.x, player.y)[2])

\* C28: witness, a call whose candidate on the X axis has its centre in a
\* wall cell and was rejected, after an earlier call
C28_Witness ==
    /\ pc = "built"
    /\ moves = MaxMoves
    /\ outcome.x = "rejected"
    /\ outcome.y = "none"
    /\ is_wall(map, world_to_cell(map, player.x + outcome.dx, player.y)[1],
                    world_to_cell(map, player.x + outcome.dx, player.y)[2])
    /\ world_to_cell(map, player.x, player.y)
            # world_to_cell(map, recommended_spawn(map)[1], recommended_spawn(map)[2])

\* ------------------------------------------------------------ the objective
\* C29: whenever the game is in Playing the objective is the centre of a
\* Free cell of the active map, in both modes: after the start of a game,
\* after every relocation of the objective and after every map switch.
C29_ObjectiveOnFreeCell ==
    (game # None /\ game.state = "Playing") =>
        /\ is_free(map, CellOfPoint(map, game.obj)[1], CellOfPoint(map, game.obj)[2])
        /\ cell_center_world(map, CellOfPoint(map, game.obj)[1],
                                  CellOfPoint(map, game.obj)[2]) = Some(game.obj)

\* C29: witness, a Normal game after its one map switch in which the
\* words drawn exceed those of the start, the switch and three tosses of
\* the coin: a relocation drew an anchor for the objective
C29_Witness ==
    /\ game # None
    /\ game.state = "Playing"
    /\ game.game_mode = "Normal"
    /\ game.active_seed_idx = 1
    /\ game.rng_steps >= 6

\* ------------------------------------------------------------ the Victory arm
\* C30: a frame in Victory leaves the map, the active seed index, the
\* player's position and heading, the objective and the PRNG word as they
\* were, and the state after it is Victory or Menu.
C30_VictoryFrameKeeps ==
    [][(game # None /\ game.state = "Victory") =>
            /\ map' = map
            /\ game'.active_seed_idx = game.active_seed_idx
            /\ player'.x = player.x
            /\ player'.y = player.y
            /\ player'.angle = player.angle
            /\ game'.obj = game.obj
            /\ game'.rng_state = game.rng_state
            /\ game'.state \in {"Victory", "Menu"}]_vars

\* C30: witness, the menu after the return from a victory on the second
\* map, which is still the active one
C30_Witness ==
    /\ game # None
    /\ game.state = "Menu"
    /\ game.objective_found
    /\ game.active_seed_idx = 1
    /\ map = new_with_seed(seeds[1])
=============================================================================
